---- MODULE Spec2Model ----
(***************************************************************************)
(* Model of the gopager keyset / offset pagination engine: the keyset      *)
(* cursor and its DNF filter, the offset (pseudo) cursor, the CursorPager  *)
(* builder with its validation, Paginate, and the page-boundary functions  *)
(* IsLastPage / TrimResultSet / NextPageCursor / NextPagePseudoCursor.     *)
(***************************************************************************)
EXTENDS Integers, Sequences, FiniteSets, TLC

VARIABLES pager, getters, dataset, db, resultSet, ret, pages, pc, calls

vars == <<pager, getters, dataset, db, resultSet, ret, pages, pc, calls>>

(***************************************************************************)
(* Bounds of the model.                                                    *)
(***************************************************************************)
\* Column values of a row range over 0..MaxVal.
MaxVal == 1
\* Largest number of rows of a dataset in a pagination session.
MaxRows == 3
\* Largest page size requested in a pagination session.
MaxPage == 2
\* Largest number of elements of a keyset cursor given to the DNF builder.
MaxElems == 3
\* Largest number of orderings of a pager, and of elements of its cursor,
\* given to the validation and page-boundary functions.
MaxLen == 2
\* Largest result-set length handed to the page-boundary functions.
MaxRes == 3

(***************************************************************************)
(* limits.go                                                               *)
(***************************************************************************)
NoLimit == -1
MaxLimit == 100
DefaultLimit == 10

(***************************************************************************)
(* Directions and operators.                                               *)
(***************************************************************************)
DirectionASC == "ASC"
DirectionDESC == "DESC"
OperatorGT == ">"
OperatorLT == "<"
operatorEq == "="

\* The outcome of a Go panic in a function that returns a value.
Panic == "PANIC"

\* Direction.Valid
DirectionValid(d) == d = DirectionASC \/ d = DirectionDESC

\* Mutant: the operator of an ascending ordering for either direction.
DirectionForOperatorAscending(d) ==
    IF d \in {DirectionASC, DirectionDESC} THEN OperatorGT ELSE Panic

\* Direction.ForOperator
DirectionForOperator(d) ==
    CASE d = DirectionASC -> OperatorGT
      [] d = DirectionDESC -> OperatorLT
      [] OTHER -> Panic

\* Operator.Valid
OperatorValid(o) == o = OperatorLT \/ o = OperatorGT

\* Operator.ForOrdering
OperatorForOrdering(o) ==
    CASE o = OperatorGT -> DirectionASC
      [] o = OperatorLT -> DirectionDESC
      [] OTHER -> Panic

(***************************************************************************)
(* Column names are sequences of characters, so that the character filter  *)
(* of OrderBy.validate is computed and not assumed.                        *)
(***************************************************************************)
AlphanumericCharset ==
    {"a","b","c","d","e","f","g","h","i","j","k","l","m",
     "n","o","p","q","r","s","t","u","v","w","x","y","z",
     "A","B","C","D","E","F","G","H","I","J","K","L","M",
     "N","O","P","Q","R","S","T","U","V","W","X","Y","Z",
     "0","1","2","3","4","5","6","7","8","9"}

\* _availableColumnNameSymbols
availableColumnNameSymbols == {"_"} \cup AlphanumericCharset

ColA == <<"a">>
ColB == <<"b">>
ColC == <<"c">>
\* A column name with a character outside the allowed set.
ColBad == <<"a", ";">>

\* Error values: "" is the nil error.
NoErr == ""
ErrNilPager == "cursor pager is nil"
ErrLookaheadUnlimited == "cannot apply lookahead to unlimited paging"
ErrEmptyOrdering == "empty ordering list"
ErrInvalidDirection == "invalid ordering direction"
ErrForbiddenSymbols == "ordering column name contains forbidden symbols"
ErrColumnNumber == "cursor column number mismatch"
ErrUnexpectedColumn == "unexpected cursor column"
ErrInvalidOperator == "invalid cursor operator"
ErrUnexpectedOperator == "unexpected cursor operator"
ErrMissingGetter == "cannot find getter for column"

\* OrderBy.validate without the check of the column's characters.
OrderByValidateAnyColumn(o) ==
    IF ~DirectionValid(o.Direction) THEN ErrInvalidDirection ELSE NoErr

\* OrderBy.validate
OrderByValidate(o) ==
    IF ~DirectionValid(o.Direction) THEN ErrInvalidDirection
    ELSE IF ~(\A i \in 1..Len(o.Column) : o.Column[i] \in availableColumnNameSymbols)
         THEN ErrForbiddenSymbols
    ELSE NoErr

RECURSIVE OrderingsValidateFrom(_, _)
OrderingsValidateFrom(o, i) ==
    IF i > Len(o) THEN NoErr
    ELSE IF OrderByValidate(o[i]) # NoErr THEN OrderByValidate(o[i])
    ELSE OrderingsValidateFrom(o, i + 1)

\* Orderings.validate
OrderingsValidate(o) ==
    IF Len(o) = 0 THEN ErrEmptyOrdering ELSE OrderingsValidateFrom(o, 1)

(***************************************************************************)
(* Cursor values.  A value is an integer or a string; a string that is the *)
(* text of a timestamp is bound as a timestamp (parseAnyValue).            *)
(***************************************************************************)
IntValue(n) == [k |-> "int", n |-> n]
TimeText(n) == [k |-> "timetext", n |-> n]

\* parseAnyValue
parseAnyValue(v) ==
    IF v.k = "timetext" THEN [k |-> "time", n |-> v.n] ELSE v

(***************************************************************************)
(* Cursors.  A cursor is a record for both variants; nil is the nil        *)
(* pointer; elements is the keyset cursor's list, offset the pseudo        *)
(* cursor's offset.                                                        *)
(***************************************************************************)
NilCursor == [nil |-> TRUE, elements |-> <<>>, offset |-> 0]

\* NewDefaultCursor
NewDefaultCursor(elements) == [nil |-> FALSE, elements |-> elements, offset |-> 0]

\* NewPseudoCursor
NewPseudoCursor(offset) == [nil |-> FALSE, elements |-> <<>>, offset |-> offset]

\* DefaultCursor.IsEmpty
DefaultCursorIsEmpty(c) == c.nil \/ Len(c.elements) = 0

\* PseudoCursor.IsEmpty
PseudoCursorIsEmpty(p) == p.nil \/ p.offset = 0

\* Mutant: the previous offset is forgotten.
GetOffsetForgotten(p) == 0

\* PseudoCursor.GetOffset
GetOffset(p) == IF ~p.nil THEN p.offset ELSE 0

\* Mutant: the conjunct keeps the element's operator instead of equality.
toConjunctKeepingOperator(e) ==
    [Column |-> e.Column, Value |-> e.Value, Operator |-> e.Operator]

\* CursorElement.toConjunctWithEqualityCondition
toConjunctWithEqualityCondition(e) ==
    [Column |-> e.Column, Value |-> e.Value, Operator |-> operatorEq]

\* Mutant: the disjunct holds element i alone, without the equality prefix.
toDNFDisjunctWithoutPrefix(elements, i) == <<elements[i]>>

\* One disjunct of toDNF: equality conjuncts of elements[:i], then element i.
toDNFDisjunct(elements, i) ==
    [j \in 1..i |-> IF j < i THEN toConjunctWithEqualityCondition(elements[j])
                    ELSE elements[i]]

\* DefaultCursor.toDNF
toDNF(c) ==
    IF DefaultCursorIsEmpty(c) THEN <<>>
    ELSE [i \in 1..Len(c.elements) |-> toDNFDisjunct(c.elements, i)]

\* tConjunct.toSQLClause: the text "Column Operator ?" and the bound value.
conjunctToSQLClause(c) ==
    [sql |-> <<c.Column, c.Operator, "?">>, arg |-> parseAnyValue(c.Value)]

\* tDisjunct.toSQLClause: "(K1 AND K2 ...)" and the bound values in order;
\* the empty text (join "") for no conjunct.
disjunctToSQLClause(d) ==
    IF Len(d) >= 1
    THEN [sql |-> [join |-> "AND", parts |-> [i \in 1..Len(d) |-> conjunctToSQLClause(d[i]).sql]],
          args |-> [i \in 1..Len(d) |-> conjunctToSQLClause(d[i]).arg]]
    ELSE [sql |-> [join |-> "", parts |-> <<>>], args |-> <<>>]

RECURSIVE dnfClausesFrom(_, _)
dnfClausesFrom(d, i) ==
    IF i > Len(d) THEN [parts |-> <<>>, args |-> <<>>]
    ELSE LET one == disjunctToSQLClause(d[i])
             rest == dnfClausesFrom(d, i + 1)
         IN IF one.sql.join = "" THEN rest
            ELSE [parts |-> <<one.sql>> \o rest.parts, args |-> one.args \o rest.args]

\* tDNF.toSQLClause: "(D1 OR D2 ...)" and all bound values, or TRUE.
dnfToSQLClause(d) ==
    LET all == dnfClausesFrom(d, 1)
    IN IF Len(all.parts) >= 1
       THEN [sql |-> [join |-> "OR", parts |-> all.parts], args |-> all.args]
       ELSE [sql |-> [join |-> "TRUE", parts |-> <<>>], args |-> <<>>]

\* DefaultCursor.ToSQL
DefaultCursorToSQL(c) ==
    IF DefaultCursorIsEmpty(c)
    THEN [sql |-> [join |-> "TRUE", parts |-> <<>>], args |-> <<>>]
    ELSE dnfToSQLClause(toDNF(c))

\* tConjunct.toGORMExpression: clause.Expr{SQL: "Column Operator ?", Vars: [arg]}.
conjunctToGORMExpression(c) ==
    [Column |-> c.Column, Operator |-> c.Operator, Var |-> conjunctToSQLClause(c).arg]

\* tDisjunct.toGORMExpression: the AND of its conjuncts' expressions (the
\* expression itself for one conjunct), nil (the empty sequence) for none.
disjunctToGORMExpression(d) ==
    [i \in 1..Len(d) |-> conjunctToGORMExpression(d[i])]

\* tDNF.toGORMExpression: the OR of the non-nil disjunct expressions (the
\* expression itself for one disjunct); nil is TRUE when there is none.
dnfToGORMExpression(d) ==
    LET ors == SelectSeq([i \in 1..Len(d) |-> disjunctToGORMExpression(d[i])],
                         LAMBDA e : Len(e) > 0)
    IN [nil |-> Len(ors) = 0, ors |-> ors]

(***************************************************************************)
(* The query builder (gorm.DB) is the list of the calls made on it.        *)
(***************************************************************************)
DbOrder(sort) == [op |-> "Order", sort |-> sort, expr |-> <<>>, n |-> 0]
DbClauses(expr) == [op |-> "Clauses", sort |-> <<>>, expr |-> expr, n |-> 0]
DbOffset(n) == [op |-> "Offset", sort |-> <<>>, expr |-> <<>>, n |-> n]
DbLimit(n) == [op |-> "Limit", sort |-> <<>>, expr |-> <<>>, n |-> n]

\* Orderings.ToSQL: the "column direction" pairs in order.
OrderingsToSQL(o) == [i \in 1..Len(o) |-> <<o[i].Column, o[i].Direction>>]

\* Orderings.Apply
OrderingsApply(o, q) == Append(q, DbOrder(OrderingsToSQL(o)))

\* DefaultCursor.Apply
DefaultCursorApply(c, q) ==
    LET exp == dnfToGORMExpression(toDNF(c))
    IN IF exp.nil THEN q ELSE Append(q, DbClauses(exp.ors))

\* PseudoCursor.Apply
PseudoCursorApply(p, q) == Append(q, DbOffset(GetOffset(p)))

(***************************************************************************)
(* DefaultCursor.validate                                                  *)
(***************************************************************************)
\* Mutant: the operator is mapped to a direction without checking Valid first.
validateElementUnchecked(cond, orderBy) ==
    IF cond.Column # orderBy.Column THEN ErrUnexpectedColumn
    ELSE IF OperatorForOrdering(cond.Operator) = Panic THEN Panic
    ELSE IF OperatorForOrdering(cond.Operator) # orderBy.Direction THEN ErrUnexpectedOperator
    ELSE NoErr

\* The body of the loop of DefaultCursor.validate for one position.
validateElement(cond, orderBy) ==
    IF cond.Column # orderBy.Column THEN ErrUnexpectedColumn
    ELSE IF ~OperatorValid(cond.Operator) THEN ErrInvalidOperator
    ELSE IF OperatorForOrdering(cond.Operator) = Panic THEN Panic
    ELSE IF OperatorForOrdering(cond.Operator) # orderBy.Direction THEN ErrUnexpectedOperator
    ELSE NoErr

RECURSIVE validateElementsFrom(_, _, _)
validateElementsFrom(elements, orderings, i) ==
    IF i > Len(elements) THEN NoErr
    ELSE IF i > Len(orderings) THEN Panic
    ELSE IF validateElement(elements[i], orderings[i]) # NoErr
         THEN validateElement(elements[i], orderings[i])
    ELSE validateElementsFrom(elements, orderings, i + 1)

\* DefaultCursor.validate
DefaultCursorValidate(c, orderings) ==
    IF DefaultCursorIsEmpty(c) THEN NoErr
    ELSE IF Len(c.elements) # Len(orderings) /\ Len(c.elements) # 0 THEN ErrColumnNumber
    ELSE validateElementsFrom(c.elements, orderings, 1)

\* PseudoCursor.validate
PseudoCursorValidate(p, orderings) == NoErr

(***************************************************************************)
(* CursorPager.  kind is the type parameter: "keyset" for                  *)
(* CursorPager[*DefaultCursor], "offset" for CursorPager[*PseudoCursor].   *)
(***************************************************************************)
\* new(CursorPager[CursorType]) / NewCursorPager
NewCursorPager(kind) ==
    [nil |-> FALSE, kind |-> kind, lookahead |-> FALSE, limit |-> 0,
     cursor |-> NilCursor, sort |-> <<>>]

\* The nil *CursorPager.
NilPager(kind) == [NewCursorPager(kind) EXCEPT !.nil = TRUE]

\* The receiver after "if c == nil { c = new(CursorPager) }".
Receiver(p) == IF p.nil THEN NewCursorPager(p.kind) ELSE p

\* Mutant: the call switches lookahead on and off.
WithLookaheadToggling(p) == [Receiver(p) EXCEPT !.lookahead = ~@]

\* CursorPager.WithLookahead
WithLookahead(p) == [Receiver(p) EXCEPT !.lookahead = TRUE]

\* CursorPager.WithCursor
WithCursor(p, cursor) == [Receiver(p) EXCEPT !.cursor = cursor]

\* Mutant: the cursor is not validated against the orderings.
PagerValidateWithoutCursor(p) ==
    IF p.nil THEN ErrNilPager
    ELSE IF p.limit = NoLimit /\ p.lookahead THEN ErrLookaheadUnlimited
    ELSE OrderingsValidate(p.sort)

\* CursorPager.validate
PagerValidate(p) ==
    IF p.nil THEN ErrNilPager
    ELSE IF p.limit = NoLimit /\ p.lookahead THEN ErrLookaheadUnlimited
    ELSE IF OrderingsValidate(p.sort) # NoErr THEN OrderingsValidate(p.sort)
    ELSE IF p.kind = "keyset" THEN DefaultCursorValidate(p.cursor, p.sort)
    ELSE PseudoCursorValidate(p.cursor, p.sort)

\* CursorPager.GetLimit
GetLimit(p) == IF p.nil THEN 0 ELSE p.limit

\* CursorPager.IsLookahead
IsLookahead(p) == IF p.nil THEN FALSE ELSE p.lookahead

\* Mutant: the lookahead row is not requested.
GetDatasetLimitWithoutLookahead(p) == GetLimit(p)

\* CursorPager.GetDatasetLimit
GetDatasetLimit(p) == IF IsLookahead(p) THEN GetLimit(p) + 1 ELSE GetLimit(p)

\* The cursor's Apply, dispatched on the pager's cursor type.
CursorApply(p, q) ==
    IF p.kind = "keyset" THEN DefaultCursorApply(p.cursor, q)
    ELSE PseudoCursorApply(p.cursor, q)

\* The query-builder calls of Paginate after a successful validation.
PaginateCalls(c, q) ==
    LET sorted == OrderingsApply(c.sort, q)
        filtered == CursorApply(c, sorted)
    IN IF c.limit # NoLimit THEN Append(filtered, DbLimit(GetDatasetLimit(c)))
       ELSE filtered

\* CursorPager.Paginate: the returned builder (dbNil for nil) and error.
Paginate(p, q) ==
    LET c == Receiver(p)
        err == PagerValidate(c)
    IN IF err # NoErr THEN [op |-> "Paginate", err |-> err, dbNil |-> TRUE, db |-> <<>>]
       ELSE [op |-> "Paginate", err |-> NoErr, dbNil |-> FALSE, db |-> PaginateCalls(c, q)]

\* Mutant: with lookahead a result of exactly limit rows is not the last page.
IsLastPageStrict(initialPager, resultSet_) ==
    Len(resultSet_) < initialPager.limit

\* Mutant: a result of exactly limit rows is the last page without lookahead too.
IsLastPageInclusive(initialPager, resultSet_) ==
    Len(resultSet_) <= initialPager.limit

\* Mutant: the lookahead row is not dropped.
TrimResultSetKeepingAll(initialPager, resultSet_) == resultSet_

\* IsLastPage (on a non-nil pager)
IsLastPage(initialPager, resultSet_) ==
    Len(resultSet_) < initialPager.limit
    \/ (initialPager.lookahead /\ Len(resultSet_) <= initialPager.limit)

\* TrimResultSet (on a non-nil pager); slicing an empty set to [:-1] panics.
TrimPanics(initialPager, resultSet_) ==
    initialPager.lookahead /\ Len(resultSet_) = 0

TrimResultSet(initialPager, resultSet_) ==
    IF initialPager.lookahead
    THEN SubSeq(resultSet_, 1, Len(resultSet_) - 1)
    ELSE resultSet_

(***************************************************************************)
(* Rows and getters.  A row maps each column of the row type to a value;   *)
(* getters is the set of columns the caller's Getters map has a getter     *)
(* for, and the getter of a column returns the row's value of it.          *)
(***************************************************************************)
RowCols == {ColA, ColB}
Rows == [RowCols -> 0..MaxVal]

\* The zero value of the row type.
ZeroRow == [c \in RowCols |-> 0]

\* Mutant: the cursor is built from the first row of the page.
FirstOrEmpty(rows) == IF Len(rows) = 0 THEN ZeroRow ELSE rows[1]

\* lo.LastOrEmpty
LastOrEmpty(rows) == IF Len(rows) = 0 THEN ZeroRow ELSE rows[Len(rows)]

\* getters[column](row)
GetterValue(column, row) == IntValue(row[column])

\* The cursor element NextPageCursor builds for one ordering.
nextElement(orderBy, last) ==
    [Column |-> orderBy.Column,
     Value |-> GetterValue(orderBy.Column, last),
     Operator |-> DirectionForOperator(orderBy.Direction)]

\* The first ordering column without a getter, as a set (empty when none).
MissingGetters(sort, g) == {i \in 1..Len(sort) : sort[i].Column \notin g}

\* NextPageCursor
NextPageCursor(initialPager, resultSet_, g) ==
    LET err == PagerValidate(initialPager)
        trimmed == TrimResultSet(initialPager, resultSet_)
        last == LastOrEmpty(trimmed)
        sort == initialPager.sort
    IN IF err # NoErr
       THEN [op |-> "NextPageCursor", err |-> err, rowsNil |-> TRUE, rows |-> <<>>,
             cursor |-> NilCursor]
       ELSE IF IsLastPage(initialPager, resultSet_)
       THEN [op |-> "NextPageCursor", err |-> NoErr, rowsNil |-> FALSE, rows |-> resultSet_,
             cursor |-> NilCursor]
       ELSE IF TrimPanics(initialPager, resultSet_)
       THEN [op |-> "NextPageCursor", err |-> Panic, rowsNil |-> TRUE, rows |-> <<>>,
             cursor |-> NilCursor]
       ELSE IF MissingGetters(sort, g) # {}
       THEN [op |-> "NextPageCursor", err |-> ErrMissingGetter, rowsNil |-> TRUE,
             rows |-> <<>>, cursor |-> NilCursor]
       ELSE [op |-> "NextPageCursor", err |-> NoErr, rowsNil |-> FALSE, rows |-> trimmed,
             cursor |-> NewDefaultCursor([i \in 1..Len(sort) |-> nextElement(sort[i], last)])]

\* NextPagePseudoCursor
NextPagePseudoCursor(initialPager, resultSet_) ==
    LET err == PagerValidate(initialPager)
        trimmed == TrimResultSet(initialPager, resultSet_)
    IN IF err # NoErr
       THEN [op |-> "NextPagePseudoCursor", err |-> err, rowsNil |-> TRUE, rows |-> <<>>,
             cursor |-> NilCursor]
       ELSE IF IsLastPage(initialPager, resultSet_)
       THEN [op |-> "NextPagePseudoCursor", err |-> NoErr, rowsNil |-> FALSE,
             rows |-> resultSet_, cursor |-> NilCursor]
       ELSE IF TrimPanics(initialPager, resultSet_)
       THEN [op |-> "NextPagePseudoCursor", err |-> Panic, rowsNil |-> TRUE, rows |-> <<>>,
             cursor |-> NilCursor]
       ELSE [op |-> "NextPagePseudoCursor", err |-> NoErr, rowsNil |-> FALSE,
             rows |-> trimmed,
             cursor |-> NewPseudoCursor(GetOffset(initialPager.cursor) + Len(trimmed))]

(***************************************************************************)
(* The database behind the query builder: what executing the built query   *)
(* over the dataset returns (WHERE, ORDER BY, OFFSET, LIMIT of SQL).       *)
(***************************************************************************)
\* "column operator ?" with its bound value, on one row.
EvalConjunct(row, e) ==
    CASE e.Operator = OperatorGT -> row[e.Column] > e.Var.n
      [] e.Operator = OperatorLT -> row[e.Column] < e.Var.n
      [] e.Operator = operatorEq -> row[e.Column] = e.Var.n
      [] OTHER -> FALSE

\* clause.Or of clause.And of the conjunct expressions, on one row.
EvalExpression(row, ors) ==
    \E i \in 1..Len(ors) : \A j \in 1..Len(ors[i]) : EvalConjunct(row, ors[i][j])

\* The rows of a set that satisfy every WHERE clause of the query.
QueryWhere(q, rows) ==
    {r \in rows : \A i \in 1..Len(q) : q[i].op = "Clauses" => EvalExpression(r, q[i].expr)}

RECURSIVE QueryOrderFrom(_, _)
QueryOrderFrom(q, i) ==
    IF i > Len(q) THEN <<>>
    ELSE (IF q[i].op = "Order" THEN q[i].sort ELSE <<>>) \o QueryOrderFrom(q, i + 1)

\* The ORDER BY list of the query.
QueryOrder(q) == QueryOrderFrom(q, 1)

RECURSIVE RowBefore(_, _, _, _)
\* r1 sorts strictly before r2 under the ORDER BY list from position i on.
RowBefore(r1, r2, order, i) ==
    IF i > Len(order) THEN FALSE
    ELSE IF r1[order[i][1]] = r2[order[i][1]] THEN RowBefore(r1, r2, order, i + 1)
    ELSE IF order[i][2] = DirectionASC THEN r1[order[i][1]] < r2[order[i][1]]
    ELSE r1[order[i][1]] > r2[order[i][1]]

\* Every order in which the database may return a set of rows under an
\* ORDER BY list: rows with equal sort keys come in any order.
SortedSeqs(rows, order) ==
    {s \in [1..Cardinality(rows) -> rows] :
        /\ \A i, j \in 1..Cardinality(rows) : i # j => s[i] # s[j]
        /\ \A i, j \in 1..Cardinality(rows) : i < j => ~RowBefore(s[j], s[i], order, 1)}

\* The last Offset / Limit call of the query (as a set: empty when none).
QueryOffsets(q) ==
    {q[i].n : i \in {j \in 1..Len(q) : q[j].op = "Offset"
                       /\ \A k \in (j + 1)..Len(q) : q[k].op # "Offset"}}
QueryLimits(q) ==
    {q[i].n : i \in {j \in 1..Len(q) : q[j].op = "Limit"
                       /\ \A k \in (j + 1)..Len(q) : q[k].op # "Limit"}}

\* OFFSET then LIMIT on an ordered result.
Window(s, offsets, limits) ==
    LET from == IF offsets = {} THEN 0 ELSE CHOOSE n \in offsets : TRUE
        upto == IF limits = {} THEN Len(s)
                ELSE LET n == from + (CHOOSE n \in limits : TRUE)
                     IN IF n < Len(s) THEN n ELSE Len(s)
    IN SubSeq(s, from + 1, upto)

\* Every result the database may return for the query over the rows.
QueryResults(q, rows) ==
    {Window(s, QueryOffsets(q), QueryLimits(q)) : s \in SortedSeqs(QueryWhere(q, rows), QueryOrder(q))}

(***************************************************************************)
(* Inputs of a pagination session.                                         *)
(***************************************************************************)
\* Sequences over S of length 0..n.
SeqsUpTo(S, n) == UNION {[1..k -> S] : k \in 0..n}

\* Sequences of orderings without a repeated column (WithSort keeps them so).
DistinctColumns(o) == \A i, j \in 1..Len(o) : i # j => o[i].Column # o[j].Column

ValidOrderBys == [Column : RowCols, Direction : {DirectionASC, DirectionDESC}]
ValidSorts == {o \in SeqsUpTo(ValidOrderBys, MaxLen) : Len(o) >= 1 /\ DistinctColumns(o)}

Datasets == {d \in SUBSET Rows : Cardinality(d) <= MaxRows}

\* The pager of a request: NewCursorPager, WithSort, WithLimit, WithLookahead.
RequestPager(kind, sort, limit, lookahead) ==
    [nil |-> FALSE, kind |-> kind, lookahead |-> lookahead, limit |-> limit,
     cursor |-> NilCursor, sort |-> sort]

NoRet == [op |-> "", err |-> NoErr]

(***************************************************************************)
(* A pagination session: the client requests page after page over a static *)
(* dataset, feeding each returned cursor into the next request.            *)
(***************************************************************************)
Init ==
    /\ \E kind \in {"keyset", "offset"}, sort \in ValidSorts, limit \in 1..MaxPage,
          lookahead \in BOOLEAN :
          pager = RequestPager(kind, sort, limit, lookahead)
    /\ getters \in {RowCols} \cup {RowCols \ {c} : c \in RowCols}
    /\ dataset \in Datasets
    /\ db = <<>>
    /\ resultSet = <<>>
    /\ ret = NoRet
    /\ pages = <<>>
    /\ pc = "paginate"
    /\ calls = <<>>

\* The handler builds the query of the request.
DoPaginate ==
    /\ pc = "paginate"
    /\ ret' = Paginate(pager, <<>>)
    /\ db' = ret'.db
    /\ pc' = IF ret'.err = NoErr THEN "execute" ELSE "failed"
    /\ UNCHANGED <<pager, getters, dataset, resultSet, pages, calls>>

\* The database executes the query.
Execute ==
    /\ pc = "execute"
    /\ resultSet' \in QueryResults(db, dataset)
    /\ pc' = "next"
    /\ UNCHANGED <<pager, getters, dataset, db, ret, pages, calls>>

\* The handler derives the page and the next keyset cursor.
DoNextPageCursor ==
    /\ pc = "next"
    /\ pager.kind = "keyset"
    /\ ret' = NextPageCursor(pager, resultSet, getters)
    /\ pages' = IF ret'.err = NoErr THEN pages \o ret'.rows ELSE pages
    /\ pc' = IF ret'.err # NoErr THEN "failed"
             ELSE IF ret'.cursor.nil THEN "done" ELSE "respond"
    /\ UNCHANGED <<pager, getters, dataset, db, resultSet, calls>>

\* The handler derives the page and the next offset cursor.
DoNextPagePseudoCursor ==
    /\ pc = "next"
    /\ pager.kind = "offset"
    /\ ret' = NextPagePseudoCursor(pager, resultSet)
    /\ pages' = IF ret'.err = NoErr THEN pages \o ret'.rows ELSE pages
    /\ pc' = IF ret'.err # NoErr THEN "failed"
             ELSE IF ret'.cursor.nil THEN "done" ELSE "respond"
    /\ UNCHANGED <<pager, getters, dataset, db, resultSet, calls>>

\* The client asks for the next page with the returned cursor.
NextRequest ==
    /\ pc = "respond"
    /\ pager' = WithCursor(pager, ret.cursor)
    /\ db' = <<>>
    /\ resultSet' = <<>>
    /\ pc' = "paginate"
    /\ UNCHANGED <<getters, dataset, ret, pages, calls>>

Next ==
    \/ DoPaginate
    \/ Execute
    \/ DoNextPageCursor
    \/ DoNextPagePseudoCursor
    \/ NextRequest

Spec == Init /\ [][Next]_vars

(***************************************************************************)
(* The DNF builder on its own: a keyset cursor over distinct columns is    *)
(* rendered (ToSQL) and applied to a query over every row (Apply).         *)
(***************************************************************************)
DnfCols == {ColA, ColB, ColC}
DnfRows == [DnfCols -> 0..MaxVal]
DnfValues == {IntValue(n) : n \in 0..MaxVal} \cup {TimeText(n) : n \in 0..MaxVal}
DnfOperators == {OperatorGT, OperatorLT}

\* The element lists of length k over distinct columns.
DnfElementLists(k) ==
    {[i \in 1..k |-> [Column |-> cols[i], Value |-> vo[i][1], Operator |-> vo[i][2]]] :
        cols \in {f \in [1..k -> DnfCols] : \A i, j \in 1..k : i # j => f[i] # f[j]},
        vo \in [1..k -> DnfValues \X DnfOperators]}

DnfCursors ==
    {NilCursor} \cup {NewDefaultCursor(e) : e \in UNION {DnfElementLists(k) : k \in 0..MaxElems}}

InitDNF ==
    /\ \E c \in DnfCursors : pager = WithCursor(NewCursorPager("keyset"), c)
    /\ getters = {}
    /\ dataset = DnfRows
    /\ db = <<>>
    /\ resultSet = <<>>
    /\ ret = NoRet
    /\ pages = <<>>
    /\ pc = "dnf"
    /\ calls = <<>>

\* DefaultCursor.ToSQL renders the cursor's filter.
RenderCursor ==
    /\ pc = "dnf"
    /\ ret' = [op |-> "ToSQL", err |-> NoErr, dnf |-> toDNF(pager.cursor),
               sql |-> DefaultCursorToSQL(pager.cursor).sql,
               args |-> DefaultCursorToSQL(pager.cursor).args]
    /\ pc' = "rendered"
    /\ UNCHANGED <<pager, getters, dataset, db, resultSet, pages, calls>>

\* DefaultCursor.Apply adds the filter to a query, which the database
\* evaluates on every row.
ApplyCursor ==
    /\ pc = "dnf"
    /\ db' = DefaultCursorApply(pager.cursor, <<>>)
    /\ ret' = [op |-> "Apply", err |-> NoErr, matched |-> QueryWhere(db', dataset)]
    /\ pc' = "applied"
    /\ UNCHANGED <<pager, getters, dataset, resultSet, pages, calls>>

NextDNF ==
    \/ RenderCursor
    \/ ApplyCursor

SpecDNF == InitDNF /\ [][NextDNF]_vars

(***************************************************************************)
(* C1.  For a keyset cursor with elements (C1,O1,V1)..(Cn,On,Vn), n >= 1,  *)
(* over distinct columns, the filter the cursor contributes is true on a   *)
(* row exactly when the row comes strictly after the reference row         *)
(* (V1..Vn) in the lexicographic order that compares column i ascending    *)
(* when Oi is '>' and descending when Oi is '<'; the reference row itself  *)
(* never satisfies the filter.                                             *)
(***************************************************************************)
RECURSIVE StrictlyAfter(_, _, _)
StrictlyAfter(r, e, i) ==
    IF i > Len(e) THEN FALSE
    ELSE IF r[e[i].Column] = e[i].Value.n THEN StrictlyAfter(r, e, i + 1)
    ELSE IF e[i].Operator = ">" THEN r[e[i].Column] > e[i].Value.n
    ELSE r[e[i].Column] < e[i].Value.n

IsReferenceRow(r, e) == \A i \in 1..Len(e) : r[e[i].Column] = e[i].Value.n

C1_FilterIsStrictlyAfter ==
    (ret.op = "Apply" /\ Len(pager.cursor.elements) >= 1) =>
        \A r \in dataset :
            /\ (r \in ret.matched) <=> StrictlyAfter(r, pager.cursor.elements, 1)
            /\ IsReferenceRow(r, pager.cursor.elements) => r \notin ret.matched

C1_Witness ==
    /\ ret.op = "Apply"
    /\ Len(pager.cursor.elements) = 3
    /\ pager.cursor.elements[1].Operator = ">"
    /\ pager.cursor.elements[2].Operator = "<"
    /\ \E r \in ret.matched : r[pager.cursor.elements[1].Column] = pager.cursor.elements[1].Value.n
    /\ \E r \in dataset : r \notin ret.matched

(***************************************************************************)
(* C3.  For a keyset cursor with n >= 1 elements toDNF yields exactly n    *)
(* disjuncts in element order; disjunct i has exactly i conjuncts, the     *)
(* first i-1 being the equality conjuncts (Cj = Vj) of elements 1..i-1 in  *)
(* order and the last being element i with its own operator and value; the *)
(* rendered clause has that shape and binds n(n+1)/2 values in the same    *)
(* left-to-right order; an empty cursor renders the always-true condition. *)
(***************************************************************************)
BoundAs(arg, v) ==
    arg = v \/ (v.k = "timetext" /\ arg = [k |-> "time", n |-> v.n])

C3_DNFShape ==
    ret.op = "ToSQL" =>
        LET e == pager.cursor.elements
            n == Len(e)
        IN /\ Len(ret.dnf) = n
           /\ \A i \in 1..n :
                /\ Len(ret.dnf[i]) = i
                /\ \A j \in 1..(i - 1) :
                     ret.dnf[i][j] = [Column |-> e[j].Column, Value |-> e[j].Value,
                                      Operator |-> "="]
                /\ ret.dnf[i][i] = e[i]
           /\ Len(ret.args) = (n * (n + 1)) \div 2
           /\ \A i \in 1..n : \A j \in 1..i :
                BoundAs(ret.args[((i * (i - 1)) \div 2) + j], e[j].Value)
           /\ n = 0 => (ret.sql.join = "TRUE" /\ ret.sql.parts = <<>>)
           /\ n >= 1 =>
                /\ ret.sql.join = "OR"
                /\ Len(ret.sql.parts) = n
                /\ \A i \in 1..n :
                     /\ ret.sql.parts[i].join = "AND"
                     /\ Len(ret.sql.parts[i].parts) = i
                     /\ \A j \in 1..i :
                          ret.sql.parts[i].parts[j] =
                            <<e[j].Column, IF j < i THEN "=" ELSE e[i].Operator, "?">>

C3_Witness ==
    /\ ret.op = "ToSQL"
    /\ Len(pager.cursor.elements) = 3
    /\ Len(ret.args) = 6
    /\ pager.cursor.elements[1].Value.k = "timetext"
    /\ pager.cursor.elements[3].Operator = "<"

(***************************************************************************)
(* C2.  Over a static dataset whose sort-key tuples are pairwise distinct, *)
(* a keyset session that starts from the empty cursor and feeds every      *)
(* returned cursor into the next request (same orderings, same limit >= 1, *)
(* with or without lookahead) returns, page after page, exactly the        *)
(* dataset in the requested order: what has been returned so far is always *)
(* the beginning of the ordered dataset without a gap or a repetition, and *)
(* when no cursor is returned it is the whole dataset.                     *)
(***************************************************************************)
SessionOrder == OrderingsToSQL(pager.sort)

DistinctSortKeys ==
    \A r1, r2 \in dataset :
        r1 # r2 => (RowBefore(r1, r2, SessionOrder, 1) \/ RowBefore(r2, r1, SessionOrder, 1))

PagesInOrder ==
    \A i, j \in 1..Len(pages) : i < j => RowBefore(pages[i], pages[j], SessionOrder, 1)

PagesAreBeginning ==
    /\ \A i \in 1..Len(pages) : pages[i] \in dataset
    /\ \A r \in dataset :
         (\A i \in 1..Len(pages) : pages[i] # r) =>
             \A i \in 1..Len(pages) : RowBefore(pages[i], r, SessionOrder, 1)

C2_PagesAreTheDataset ==
    (pager.kind = "keyset" /\ pager.limit >= 1 /\ DistinctSortKeys) =>
        /\ PagesInOrder
        /\ PagesAreBeginning
        /\ pc = "done" => Len(pages) = Cardinality(dataset)

C2_Witness ==
    /\ pager.kind = "keyset"
    /\ DistinctSortKeys
    /\ pc = "done"
    /\ pager.limit = 1
    /\ Len(pager.sort) = 2
    /\ pager.sort[1].Direction = DirectionDESC
    /\ Len(pages) = 3
    /\ pages[1][pager.sort[1].Column] = pages[2][pager.sort[1].Column]

(***************************************************************************)
(* C5.  With lookahead enabled, limit L >= 1 and a query that returned     *)
(* min(remaining, L+1) rows, a successful NextPageCursor or                *)
(* NextPagePseudoCursor returns a cursor exactly when more than L rows     *)
(* remained, and the page it returns is the first min(remaining, L) rows   *)
(* of the result: the lookahead row is never part of the page, and on the  *)
(* last page no row is dropped.                                            *)
(***************************************************************************)
Min(a, b) == IF a < b THEN a ELSE b

\* The rows of the dataset not yet returned before the last call.
Remaining == Cardinality(dataset) - (Len(pages) - Len(ret.rows))

C5_LookaheadRowNeverReturned ==
    (/\ pc \in {"done", "respond"}
     /\ ret.op \in {"NextPageCursor", "NextPagePseudoCursor"}
     /\ ret.err = NoErr
     /\ pager.lookahead
     /\ pager.limit >= 1
     /\ Len(resultSet) = Min(Remaining, pager.limit + 1)) =>
        /\ ~ret.cursor.nil <=> Remaining > pager.limit
        /\ ret.rows = SubSeq(resultSet, 1, Min(Remaining, pager.limit))

C5_Witness ==
    /\ pc = "respond"
    /\ ret.op = "NextPageCursor"
    /\ pager.lookahead
    /\ pager.limit = 2
    /\ Remaining = 3
    /\ Len(resultSet) = 3
    /\ Len(ret.rows) = 2

C5_WitnessLastPage ==
    /\ pc = "done"
    /\ ret.op = "NextPagePseudoCursor"
    /\ pager.lookahead
    /\ pager.limit = 2
    /\ Len(pages) = 2
    /\ Remaining = 2
    /\ Len(resultSet) = 2
    /\ Len(ret.rows) = 2

(***************************************************************************)
(* DefaultCursor.validate on its own: any cursor against any orderings.    *)
(***************************************************************************)
UnknownOperator == "!"
InvalidDirection == ""

CursorElements ==
    [Column : RowCols, Value : {IntValue(0)},
     Operator : {OperatorGT, OperatorLT, operatorEq, UnknownOperator}]
CursorInputs ==
    {NilCursor} \cup {NewDefaultCursor(e) : e \in SeqsUpTo(CursorElements, MaxLen)}
OrderingInputs ==
    SeqsUpTo([Column : RowCols, Direction : {DirectionASC, DirectionDESC, InvalidDirection}],
             MaxLen)

InitCursor ==
    /\ \E c \in CursorInputs, o \in OrderingInputs :
          pager = [nil |-> FALSE, kind |-> "keyset", lookahead |-> FALSE, limit |-> 0,
                   cursor |-> c, sort |-> o]
    /\ getters = {}
    /\ dataset = {}
    /\ db = <<>>
    /\ resultSet = <<>>
    /\ ret = NoRet
    /\ pages = <<>>
    /\ pc = "call"
    /\ calls = <<>>

\* cursor.validate(orderings)
CallCursorValidate ==
    /\ pc = "call"
    /\ ret' = [op |-> "cursor.validate", err |-> DefaultCursorValidate(pager.cursor, pager.sort)]
    /\ pc' = "returned"
    /\ UNCHANGED <<pager, getters, dataset, db, resultSet, pages, calls>>

NextCursor == CallCursorValidate

SpecCursor == InitCursor /\ [][NextCursor]_vars

(***************************************************************************)
(* C8.  DefaultCursor.validate(orderings) succeeds if and only if the      *)
(* cursor is nil or empty, or it has as many elements as there are         *)
(* orderings and at every position the element's column is the ordering's  *)
(* column, its operator is '>' or '<', and the operator corresponds to the *)
(* ordering's direction ('>' to ASC, '<' to DESC); every other input       *)
(* yields a returned error and never a panic, also for the operator '='    *)
(* or an unknown one.                                                      *)
(***************************************************************************)
OperatorMatches(operator, direction) ==
    \/ (operator = ">" /\ direction = "ASC")
    \/ (operator = "<" /\ direction = "DESC")

CursorMatches(c, orderings) ==
    \/ c.nil
    \/ Len(c.elements) = 0
    \/ /\ Len(c.elements) = Len(orderings)
       /\ \A i \in 1..Len(c.elements) :
            /\ c.elements[i].Column = orderings[i].Column
            /\ OperatorMatches(c.elements[i].Operator, orderings[i].Direction)

C8_CursorValidate ==
    ret.op = "cursor.validate" =>
        /\ ret.err # Panic
        /\ ret.err = NoErr <=> CursorMatches(pager.cursor, pager.sort)

C8_Witness ==
    /\ ret.op = "cursor.validate"
    /\ Len(pager.cursor.elements) = 2
    /\ Len(pager.sort) = 2
    /\ pager.cursor.elements[1].Column = pager.sort[1].Column
    /\ pager.cursor.elements[1].Operator = operatorEq
    /\ ret.err = ErrInvalidOperator

(***************************************************************************)
(* The pager's operations on their own: any pager, valid or not, with any  *)
(* result set and any getters.                                             *)
(***************************************************************************)
PagerOrderBys ==
    ValidOrderBys \cup {[Column |-> ColA, Direction |-> InvalidDirection],
                        [Column |-> ColBad, Direction |-> DirectionASC]}
PagerSorts == {o \in SeqsUpTo(PagerOrderBys, MaxLen) : DistinctColumns(o)}

\* The cursor that continues after a row of zeros under the orderings.
MatchingElements(sort) ==
    [i \in 1..Len(sort) |->
        [Column |-> sort[i].Column, Value |-> IntValue(0),
         Operator |-> IF sort[i].Direction = DirectionDESC THEN OperatorLT ELSE OperatorGT]]

\* Keyset cursors for a pager with the orderings: nil, empty, the matching
\* one, and the matching one with one column or operator changed, with its
\* last element dropped, or with one more element.
KeysetCursors(sort) ==
    LET m == MatchingElements(sort)
    IN {NilCursor, NewDefaultCursor(<<>>), NewDefaultCursor(m)}
       \cup {NewDefaultCursor([m EXCEPT ![i].Column = ColC]) : i \in 1..Len(m)}
       \cup {NewDefaultCursor([m EXCEPT ![i].Operator = o]) :
                i \in 1..Len(m), o \in {OperatorGT, OperatorLT, operatorEq, UnknownOperator}}
       \cup {NewDefaultCursor(SubSeq(m, 1, Len(m) - 1)) : i \in 1..Len(m)}
       \cup {NewDefaultCursor(Append(m, [Column |-> ColC, Value |-> IntValue(0),
                                         Operator |-> OperatorGT]))}

OffsetCursors == {NilCursor} \cup {NewPseudoCursor(n) : n \in 0..MaxPage}

PagerLimits == {NoLimit} \cup 0..MaxPage

PagerInputs ==
    {NilPager("keyset"), NilPager("offset")}
    \cup UNION {{[nil |-> FALSE, kind |-> "keyset", lookahead |-> la, limit |-> l,
                  cursor |-> c, sort |-> o] :
                    la \in BOOLEAN, l \in PagerLimits, c \in KeysetCursors(o)} :
                o \in PagerSorts}
    \cup {[nil |-> FALSE, kind |-> "offset", lookahead |-> la, limit |-> l,
           cursor |-> c, sort |-> o] :
            la \in BOOLEAN, l \in PagerLimits, c \in OffsetCursors, o \in PagerSorts}

\* Row i of the sample result sets: consecutive rows differ.
SampleRow(i) ==
    [c \in RowCols |-> IF c = ColA THEN i % (MaxVal + 1)
                       ELSE (i \div (MaxVal + 1)) % (MaxVal + 1)]
ResultInputs == {[i \in 1..k |-> SampleRow(i)] : k \in 0..MaxRes}
GetterInputs == {RowCols} \cup {RowCols \ {c} : c \in RowCols}

InitPager ==
    /\ pager \in PagerInputs
    /\ getters = {}
    /\ dataset = {}
    /\ db = <<>>
    /\ resultSet = <<>>
    /\ ret = NoRet
    /\ pages = <<>>
    /\ pc = "call"
    /\ calls = <<>>

\* pager.validate()
CallValidate ==
    /\ pc = "call"
    /\ ret' = [op |-> "validate", err |-> PagerValidate(pager)]
    /\ pc' = "returned"
    /\ UNCHANGED <<pager, getters, dataset, db, resultSet, pages, calls>>

\* pager.Paginate(db) on a fresh query builder
CallPaginate ==
    /\ pc = "call"
    /\ ret' = Paginate(pager, <<>>)
    /\ db' = ret'.db
    /\ pc' = "returned"
    /\ UNCHANGED <<pager, getters, dataset, resultSet, pages, calls>>

\* IsLastPage(pager, resultSet); a nil pager is dereferenced.
CallIsLastPage ==
    /\ pc = "call"
    /\ resultSet' \in ResultInputs
    /\ ret' = IF pager.nil THEN [op |-> "IsLastPage", err |-> Panic]
              ELSE [op |-> "IsLastPage", err |-> NoErr, last |-> IsLastPage(pager, resultSet')]
    /\ pc' = "returned"
    /\ UNCHANGED <<pager, getters, dataset, db, pages, calls>>

\* TrimResultSet(pager, resultSet); a nil pager is dereferenced.
CallTrimResultSet ==
    /\ pc = "call"
    /\ resultSet' \in ResultInputs
    /\ ret' = IF pager.nil \/ TrimPanics(pager, resultSet')
              THEN [op |-> "TrimResultSet", err |-> Panic]
              ELSE [op |-> "TrimResultSet", err |-> NoErr,
                    rows |-> TrimResultSet(pager, resultSet')]
    /\ pc' = "returned"
    /\ UNCHANGED <<pager, getters, dataset, db, pages, calls>>

\* NextPageCursor(pager, resultSet, getters)
CallNextPageCursor ==
    /\ pc = "call"
    /\ pager.kind = "keyset"
    /\ resultSet' \in ResultInputs
    /\ getters' \in GetterInputs
    /\ ret' = NextPageCursor(pager, resultSet', getters')
    /\ pc' = "returned"
    /\ UNCHANGED <<pager, dataset, db, pages, calls>>

\* NextPagePseudoCursor(pager, resultSet)
CallNextPagePseudoCursor ==
    /\ pc = "call"
    /\ pager.kind = "offset"
    /\ resultSet' \in ResultInputs
    /\ ret' = NextPagePseudoCursor(pager, resultSet')
    /\ pc' = "returned"
    /\ UNCHANGED <<pager, getters, dataset, db, pages, calls>>

NextPager ==
    \/ CallValidate
    \/ CallPaginate
    \/ CallIsLastPage
    \/ CallTrimResultSet
    \/ CallNextPageCursor
    \/ CallNextPagePseudoCursor

SpecPager == InitPager /\ [][NextPager]_vars

(***************************************************************************)
(* C4.  IsLastPage(pager, rows) is true if and only if len(rows) < limit,  *)
(* or lookahead is enabled and len(rows) <= limit; for every limit of the  *)
(* pager (0 and the unlimited sentinel -1 included) and every length.      *)
(***************************************************************************)
LastPageByCount(p, rows) ==
    IF p.lookahead THEN ~(Len(rows) > p.limit) ELSE ~(Len(rows) >= p.limit)

C4_IsLastPage ==
    (ret.op = "IsLastPage" /\ ret.err = NoErr) =>
        (ret.last <=> LastPageByCount(pager, resultSet))

C4_Witness ==
    /\ ret.op = "IsLastPage"
    /\ ret.err = NoErr
    /\ pager.lookahead
    /\ pager.limit = 2
    /\ Len(resultSet) = 2
    /\ ret.last

(***************************************************************************)
(* C6.  When NextPagePseudoCursor does not classify the result set as the  *)
(* last page it returns the trimmed rows and a cursor whose offset is the  *)
(* pager's current cursor offset (0 for a nil cursor) plus the number of   *)
(* rows it returns; when it does, it returns the rows unchanged and no     *)
(* cursor.                                                                 *)
(***************************************************************************)
AllButLookahead(p, rows) ==
    IF p.lookahead THEN [i \in 1..(Len(rows) - 1) |-> rows[i]] ELSE rows

C6_PseudoCursorOffset ==
    (ret.op = "NextPagePseudoCursor" /\ ret.err = NoErr) =>
        IF LastPageByCount(pager, resultSet)
        THEN ret.rows = resultSet /\ ret.cursor.nil
        ELSE /\ ret.rows = AllButLookahead(pager, resultSet)
             /\ ~ret.cursor.nil
             /\ ret.cursor.offset =
                  (IF pager.cursor.nil THEN 0 ELSE pager.cursor.offset) + Len(ret.rows)

C6_Witness ==
    /\ ret.op = "NextPagePseudoCursor"
    /\ ret.err = NoErr
    /\ pager.lookahead
    /\ pager.limit = 2
    /\ ~pager.cursor.nil
    /\ pager.cursor.offset = 2
    /\ Len(resultSet) = 3
    /\ ret.cursor.offset = 4

(***************************************************************************)
(* C7.  When NextPageCursor, on a pager that passes validation, does not   *)
(* classify the result set as the last page: if a getter is missing for    *)
(* an ordering column it returns an error and neither rows nor cursor;     *)
(* otherwise the cursor has exactly one element per OrderBy, in ordering   *)
(* order, with the ordering's column, the operator of its direction ('>'   *)
(* for ASC, '<' for DESC) and the value of that column in the last row of  *)
(* the trimmed page (not in the lookahead row).                            *)
(***************************************************************************)
C7_NextCursorElements ==
    (/\ ret.op = "NextPageCursor"
     /\ ret.err \in {NoErr, ErrMissingGetter}
     /\ ~LastPageByCount(pager, resultSet)) =>
        LET page == AllButLookahead(pager, resultSet)
        IN IF \E i \in 1..Len(pager.sort) : pager.sort[i].Column \notin getters
           THEN ret.err = ErrMissingGetter /\ ret.rowsNil /\ ret.cursor.nil
           ELSE /\ ret.err = NoErr
                /\ ret.rows = page
                /\ ~ret.cursor.nil
                /\ Len(ret.cursor.elements) = Len(pager.sort)
                /\ \A i \in 1..Len(pager.sort) :
                     /\ ret.cursor.elements[i].Column = pager.sort[i].Column
                     /\ OperatorMatches(ret.cursor.elements[i].Operator,
                                        pager.sort[i].Direction)
                     /\ Len(page) >= 1 =>
                          ret.cursor.elements[i].Value =
                            [k |-> "int", n |-> page[Len(page)][pager.sort[i].Column]]

C7_Witness ==
    /\ ret.op = "NextPageCursor"
    /\ ret.err = NoErr
    /\ pager.lookahead
    /\ pager.limit = 2
    /\ Len(resultSet) = 3
    /\ Len(pager.sort) = 2
    /\ pager.sort[2].Direction = DirectionDESC
    /\ ~ret.cursor.nil
    /\ \E i \in 1..2 : resultSet[2][pager.sort[i].Column] # resultSet[3][pager.sort[i].Column]

(***************************************************************************)
(* C9 as claimed.  CursorPager.validate, Paginate, NextPageCursor and      *)
(* NextPagePseudoCursor return an error if and only if the pager is nil,   *)
(* or lookahead is enabled in unlimited mode, or the orderings are empty   *)
(* or contain an invalid direction or a forbidden column name, or the      *)
(* cursor fails its validation against the orderings.                      *)
(***************************************************************************)
ForbiddenColumn(column) ==
    \E i \in 1..Len(column) : column[i] \notin ({"_"} \cup AlphanumericCharset)

InvalidPager(p) ==
    \/ p.nil
    \/ (p.lookahead /\ p.limit = -1)
    \/ Len(p.sort) = 0
    \/ \E i \in 1..Len(p.sort) :
         \/ p.sort[i].Direction \notin {"ASC", "DESC"}
         \/ ForbiddenColumn(p.sort[i].Column)
    \/ (p.kind = "keyset" /\ ~CursorMatches(p.cursor, p.sort))

C10_PaginateCallOrder ==
    (ret.op = "Paginate" /\ ret.err = NoErr) =>
        LET filter == IF pager.kind = "offset" THEN <<"Offset">>
                      ELSE IF pager.cursor.nil \/ Len(pager.cursor.elements) = 0
                      THEN <<>> ELSE <<"Clauses">>
            limit == IF pager.limit = -1 THEN <<>> ELSE <<"Limit">>
        IN /\ [i \in 1..Len(db) |-> db[i].op] = <<"Order">> \o filter \o limit
           /\ db[1].sort = [i \in 1..Len(pager.sort) |->
                               <<pager.sort[i].Column, pager.sort[i].Direction>>]
           /\ pager.kind = "offset" =>
                db[2].n = (IF pager.cursor.nil THEN 0 ELSE pager.cursor.offset)
           /\ pager.limit # -1 =>
                db[Len(db)].n = (IF pager.lookahead THEN pager.limit + 1 ELSE pager.limit)

C10_Witness ==
    /\ ret.op = "Paginate"
    /\ ret.err = NoErr
    /\ pager.kind = "keyset"
    /\ Len(db) = 3
    /\ pager.lookahead
    /\ db[3].n = 3

(***************************************************************************)
(* Orderings.validate on its own: one OrderBy whose column is any short    *)
(* name over a sample of characters, or a table-qualified column.          *)
(***************************************************************************)
\* Largest length of the sampled column names.
MaxName == 2

\* orders.created_at
ColOrdersCreatedAt ==
    <<"o", "r", "d", "e", "r", "s", ".", "c", "r", "e", "a", "t", "e", "d", "_", "a", "t">>

\* The sampled characters: a letter of each case, a digit, the underscore,
\* the dot, two quoting marks, and two characters of SQL syntax.
InitOrdering ==
    /\ LET NameSymbols == {"a", "Z", "7", "_", ".", "'", "\"", ";", " "}
           ColumnNames ==
               UNION {[1..k -> NameSymbols] : k \in 0..MaxName} \cup {ColOrdersCreatedAt}
       IN \E n \in ColumnNames, d \in {DirectionASC, DirectionDESC, InvalidDirection} :
             pager = RequestPager("keyset", <<[Column |-> n, Direction |-> d]>>, 1, FALSE)
    /\ getters = {}
    /\ dataset = {}
    /\ db = <<>>
    /\ resultSet = <<>>
    /\ ret = NoRet
    /\ pages = <<>>
    /\ pc = "call"
    /\ calls = <<>>

\* orderings.validate()
CallOrderingsValidate ==
    /\ pc = "call"
    /\ ret' = [op |-> "Orderings.validate", err |-> OrderingsValidate(pager.sort)]
    /\ pc' = "returned"
    /\ UNCHANGED <<pager, getters, dataset, db, resultSet, pages, calls>>

NextOrdering ==
    \/ CallOrderingsValidate
    \/ CallPaginate

SpecOrdering == InitOrdering /\ [][NextOrdering]_vars

(***************************************************************************)
(* C11.  Orderings.validate, and Paginate with it, accept an OrderBy with  *)
(* a valid direction exactly when its column name consists only of         *)
(* letters, digits, underscore, dot and quoting marks; in particular the   *)
(* table-qualified column orders.created_at is accepted.                   *)
(***************************************************************************)
ClaimedColumnSymbols == AlphanumericCharset \cup {"_", ".", "'", "\""}

C11_ColumnCharset ==
    (/\ ret.op \in {"Orderings.validate", "Paginate"}
     /\ pager.sort[1].Direction \in {"ASC", "DESC"}) =>
        (ret.err = NoErr <=>
            \A i \in 1..Len(pager.sort[1].Column) :
                pager.sort[1].Column[i] \in ClaimedColumnSymbols)

(***************************************************************************)
(* Text.  A token is a sequence of characters; the data it encodes is a    *)
(* sequence of bytes (0..255), as a Go string is.                          *)
(***************************************************************************)
\* The alphabet of base64.RawURLEncoding, value v at position v + 1.
Base64Alphabet ==
    <<"A","B","C","D","E","F","G","H","I","J","K","L","M",
      "N","O","P","Q","R","S","T","U","V","W","X","Y","Z",
      "a","b","c","d","e","f","g","h","i","j","k","l","m",
      "n","o","p","q","r","s","t","u","v","w","x","y","z",
      "0","1","2","3","4","5","6","7","8","9","-","_">>

\* The values of the characters of the alphabet, as a table.
Base64Values ==
    [ch \in {Base64Alphabet[v] : v \in 1..64} |->
        (CHOOSE v \in 1..64 : Base64Alphabet[v] = ch) - 1]

\* The value of a character of the alphabet, -1 for any other character.
Base64Value(ch) ==
    IF ch \in DOMAIN Base64Values THEN Base64Values[ch] ELSE -1

\* The characters other than letters and digits, with their bytes.
Punctuation ==
    {<<" ", 32>>, <<"!", 33>>, <<"\"", 34>>, <<"&", 38>>, <<"'", 39>>, <<"+", 43>>,
     <<",", 44>>, <<"-", 45>>, <<".", 46>>, <<":", 58>>, <<";", 59>>, <<"<", 60>>,
     <<"=", 61>>, <<">", 62>>, <<"[", 91>>, <<"\\", 92>>, <<"]", 93>>, <<"_", 95>>,
     <<"{", 123>>, <<"}", 125>>}

\* []byte(text) for a text given by its characters: letters and digits by
\* their place in the base64 alphabet (A-Z, a-z, 0-9), the rest by the table.
TextBytes(text) ==
    LET CharByte(ch) ==
            LET v == Base64Value(ch)
            IN IF \E q \in Punctuation : q[1] = ch
               THEN (CHOOSE q \in Punctuation : q[1] = ch)[2]
               ELSE IF v < 26 THEN 65 + v
               ELSE IF v < 52 THEN 97 + (v - 26)
               ELSE 48 + (v - 52)
    IN [i \in 1..Len(text) |-> CharByte(text[i])]

\* string(bytes) as characters; "?" for a byte that is none of them.
BytesText(bytes) ==
    LET ByteChar(b) ==
            IF \E q \in Punctuation : q[2] = b THEN (CHOOSE q \in Punctuation : q[2] = b)[1]
            ELSE IF b \in 65..90 THEN Base64Alphabet[b - 64]
            ELSE IF b \in 97..122 THEN Base64Alphabet[b - 70]
            ELSE IF b \in 48..57 THEN Base64Alphabet[b + 5]
            ELSE "?"
    IN [i \in 1..Len(bytes) |-> ByteChar(bytes[i])]

\* _encoder.EncodeToString: unpadded URL-safe base64 of the bytes.
Base64Encode(src) ==
    LET RECURSIVE From(_)
        From(i) ==
            LET left == Len(src) - i + 1
                b1 == src[i]
                b2 == IF left >= 2 THEN src[i + 1] ELSE 0
                b3 == IF left >= 3 THEN src[i + 2] ELSE 0
                val == b1 * 65536 + b2 * 256 + b3
                c1 == Base64Alphabet[(val \div 262144) + 1]
                c2 == Base64Alphabet[((val \div 4096) % 64) + 1]
                c3 == Base64Alphabet[((val \div 64) % 64) + 1]
                c4 == Base64Alphabet[(val % 64) + 1]
            IN IF left <= 0 THEN <<>>
               ELSE IF left = 1 THEN <<c1, c2>>
               ELSE IF left = 2 THEN <<c1, c2, c3>>
               ELSE <<c1, c2, c3, c4>> \o From(i + 3)
    IN From(1)

\* _encoder.DecodeString: [ok, bytes], a failure on a character outside the
\* alphabet (padding included) or on a dangling last character.
Base64Decode(s) ==
    LET RECURSIVE From(_)
        From(i) ==
            LET left == Len(s) - i + 1
                v1 == Base64Value(s[i])
                v2 == Base64Value(s[i + 1])
                v3 == IF left >= 3 THEN Base64Value(s[i + 2]) ELSE 0
                v4 == IF left >= 4 THEN Base64Value(s[i + 3]) ELSE 0
                val == v1 * 262144 + v2 * 4096 + v3 * 64 + v4
                b1 == val \div 65536
                b2 == (val \div 256) % 256
                b3 == val % 256
            IN IF left <= 0 THEN <<>>
               ELSE IF left = 2 THEN <<b1>>
               ELSE IF left = 3 THEN <<b1, b2>>
               ELSE <<b1, b2, b3>> \o From(i + 4)
    IN IF \E i \in 1..Len(s) : Base64Value(s[i]) = -1 THEN [ok |-> FALSE, bytes |-> <<>>]
       ELSE IF Len(s) % 4 = 1 THEN [ok |-> FALSE, bytes |-> <<>>]
       ELSE [ok |-> TRUE, bytes |-> From(1)]

\* strconv.Itoa ('-' is byte 45, '0' byte 48).
Itoa(n) ==
    LET RECURSIVE Digits(_)
        Digits(m) == IF m < 10 THEN <<48 + m>> ELSE Append(Digits(m \div 10), 48 + (m % 10))
    IN IF n < 0 THEN <<45>> \o Digits(-n) ELSE Digits(n)

\* strconv.Atoi on a short text: [ok, n]; an optional sign ('+' is byte
\* 43), then at least one digit and nothing but digits.
Atoi(s) ==
    LET signed == Len(s) >= 1 /\ s[1] \in {45, 43}
        digits == IF signed THEN SubSeq(s, 2, Len(s)) ELSE s
        RECURSIVE Value(_, _)
        Value(i, n) == IF i > Len(digits) THEN n ELSE Value(i + 1, n * 10 + (digits[i] - 48))
    IN IF Len(digits) = 0 \/ \E i \in 1..Len(digits) : digits[i] \notin 48..57
       THEN [ok |-> FALSE, n |-> 0]
       ELSE [ok |-> TRUE, n |-> IF signed /\ s[1] = 45 THEN -Value(1, 0) ELSE Value(1, 0)]

(***************************************************************************)
(* The offset cursor's token.                                              *)
(***************************************************************************)
\* Mutant: the token is the decimal text itself, as ToSQL gives it.
PseudoCursorStringPlain(p) ==
    IF p.nil \/ p.offset = 0 THEN <<>> ELSE BytesText(Itoa(p.offset))

\* PseudoCursor.String
PseudoCursorString(p) ==
    IF p.nil \/ p.offset = 0 THEN <<>> ELSE Base64Encode(Itoa(p.offset))

\* DecodePseudoCursor: [cursor, err], the nil cursor for the empty token.
DecodePseudoCursor(b64String) ==
    LET offsetBytes == Base64Decode(b64String)
        offset == Atoi(offsetBytes.bytes)
    IN IF Len(b64String) = 0 THEN [cursor |-> NilCursor, err |-> NoErr]
       ELSE IF ~offsetBytes.ok
       THEN [cursor |-> NilCursor, err |-> "failed to decode base64 encoded pseudo cursor"]
       ELSE IF ~offset.ok
       THEN [cursor |-> NilCursor, err |-> "failed to decode pseudo cursor offset value"]
       ELSE [cursor |-> NewPseudoCursor(offset.n), err |-> NoErr]

(***************************************************************************)
(* Values of cursor elements and their JSON form.  Besides the integers    *)
(* and timestamp texts above: a Go int too large for the model's integers, *)
(* by its decimal digits; a string, by its characters; a time.Time         *)
(* ([k |-> "time", n]); and the float64 ([k |-> "float", ...]) that        *)
(* json.Unmarshal produces for a JSON number.                              *)
(***************************************************************************)
BigIntValue(digits) == [k |-> "int", digits |-> digits]
StringValue(text) == [k |-> "string", text |-> text]

\* The RFC 3339 text of timestamp n (0..9): 2006-01-02T15:04:0nZ.
TimeTextBytes(n) ==
    TextBytes(<<"2","0","0","6","-","0","1","-","0","2","T","1","5",":","0","4",":","0">>)
    \o <<48 + n>> \o TextBytes(<<"Z">>)

\* The float64 nearest to a non-negative integer of at most 16 digits:
\* itself below 2^53 and when even; an odd one lies half way between its
\* neighbours and goes to the one that is a multiple of 4 (ties to even).
RoundToFloat64(d) ==
    LET TwoTo53 == TextBytes(<<"9","0","0","7","1","9","9","2","5","4","7","4","0","9","9","2">>)
        RECURSIVE Less(_, _, _)
        Less(a, b, i) ==
            IF i > Len(a) THEN FALSE
            ELSE IF a[i] # b[i] THEN a[i] < b[i]
            ELSE Less(a, b, i + 1)
        RECURSIVE Increment(_)
        Increment(x) ==
            IF Len(x) = 0 THEN <<49>>
            ELSE IF x[Len(x)] < 57 THEN [x EXCEPT ![Len(x)] = @ + 1]
            ELSE Append(Increment(SubSeq(x, 1, Len(x) - 1)), 48)
        lastTwo == (d[Len(d) - 1] - 48) * 10 + (d[Len(d)] - 48)
    IN IF Len(d) < 16 \/ Less(d, TwoTo53, 1) THEN d
       ELSE IF lastTwo % 2 = 0 THEN d
       ELSE IF lastTwo % 4 = 1 THEN [d EXCEPT ![Len(d)] = @ - 1]
       ELSE Increment(d)

\* A JSON string.  Strings escape as encoding/json does: the quote (34)
\* and the backslash (92) with a backslash, and <, > and & by their \u00XX
\* escapes.
MarshalString(bytes) ==
    LET EscapeByte(b) ==
            IF b = 34 \/ b = 92 THEN <<92, b>>
            ELSE IF b = 60 THEN TextBytes(<<"\\","u","0","0","3","c">>)
            ELSE IF b = 62 THEN TextBytes(<<"\\","u","0","0","3","e">>)
            ELSE IF b = 38 THEN TextBytes(<<"\\","u","0","0","2","6">>)
            ELSE <<b>>
        RECURSIVE EscapeFrom(_)
        EscapeFrom(i) ==
            IF i > Len(bytes) THEN <<>> ELSE EscapeByte(bytes[i]) \o EscapeFrom(i + 1)
    IN <<34>> \o EscapeFrom(1) \o <<34>>

\* json.Marshal of a value held in an "any".
MarshalValue(v) ==
    CASE v.k \in {"int", "float"} -> IF "digits" \in DOMAIN v THEN v.digits ELSE Itoa(v.n)
      [] v.k \in {"timetext", "time"} -> MarshalString(TimeTextBytes(v.n))
      [] v.k = "string" -> MarshalString(TextBytes(v.text))

\* json.Marshal of the element list, already compact: each CursorElement as
\* {"c":...,"v":...,"o":...}.
MarshalElements(elements) ==
    LET MarshalElement(e) ==
            TextBytes(<<"{","\"","c","\"",":">>) \o MarshalString(TextBytes(e.Column))
            \o TextBytes(<<",","\"","v","\"",":">>) \o MarshalValue(e.Value)
            \o TextBytes(<<",","\"","o","\"",":">>)
            \o MarshalString(IF e.Operator = "" THEN <<>> ELSE TextBytes(<<e.Operator>>))
            \o TextBytes(<<"}">>)
        RECURSIVE From(_)
        From(i) ==
            IF i > Len(elements) THEN <<>>
            ELSE (IF i > 1 THEN TextBytes(<<",">>) ELSE <<>>)
                 \o MarshalElement(elements[i]) \o From(i + 1)
    IN TextBytes(<<"[">>) \o From(1) \o TextBytes(<<"]">>)

(***************************************************************************)
(* json.Unmarshal into []CursorElement, for the compact documents that     *)
(* json.Marshal writes (keys c, v, o in this order, no white space), the   *)
(* empty list and null.  Every parser returns [ok, val, next].             *)
(***************************************************************************)
ParseFail == [ok |-> FALSE, val |-> <<>>, next |-> 0]

\* The bytes at position i are the literal.
HasLiteral(b, i, lit) ==
    /\ i + Len(lit) - 1 <= Len(b)
    /\ SubSeq(b, i, i + Len(lit) - 1) = lit

\* A JSON string at position i: its characters up to the closing quote,
\* with the escapes that Marshal writes.
ParseString(b, i) ==
    LET UnicodeEscape(j) ==
            IF HasLiteral(b, j, TextBytes(<<"\\","u","0","0","3","c">>)) THEN 60
            ELSE IF HasLiteral(b, j, TextBytes(<<"\\","u","0","0","3","e">>)) THEN 62
            ELSE IF HasLiteral(b, j, TextBytes(<<"\\","u","0","0","2","6">>)) THEN 38
            ELSE 0
        RECURSIVE From(_, _)
        From(j, acc) ==
            IF j > Len(b) THEN ParseFail
            ELSE IF b[j] = 34 THEN [ok |-> TRUE, val |-> acc, next |-> j + 1]
            ELSE IF b[j] = 92 THEN
                IF j + 1 <= Len(b) /\ b[j + 1] \in {34, 92}
                THEN From(j + 2, Append(acc, b[j + 1]))
                ELSE IF UnicodeEscape(j) # 0
                THEN From(j + 6, Append(acc, UnicodeEscape(j)))
                ELSE ParseFail
            ELSE From(j + 1, Append(acc, b[j]))
    IN IF i <= Len(b) /\ b[i] = 34 THEN From(i + 1, <<>>) ELSE ParseFail

\* A JSON value at position i, decoded into an "any": a string into a Go
\* string, a number (an optional minus sign, then digits) into a float64.
ParseValue(b, i) ==
    LET RECURSIVE DigitsEnd(_)
        DigitsEnd(j) == IF j <= Len(b) /\ b[j] \in 48..57 THEN DigitsEnd(j + 1) ELSE j
        start == IF i <= Len(b) /\ b[i] = 45 THEN i + 1 ELSE i
        end == DigitsEnd(start)
        Float64Of(text) ==
            IF Len(text) > 9 THEN [k |-> "float", digits |-> RoundToFloat64(text)]
            ELSE [k |-> "float", n |-> Atoi(text).n]
        StringValueOf(bytes) ==
            IF \E n \in 0..9 : bytes = TimeTextBytes(n)
            THEN TimeText(CHOOSE n \in 0..9 : bytes = TimeTextBytes(n))
            ELSE StringValue(BytesText(bytes))
        str == ParseString(b, i)
    IN IF i <= Len(b) /\ b[i] = 34
       THEN IF str.ok THEN [str EXCEPT !.val = StringValueOf(str.val)] ELSE ParseFail
       ELSE IF end = start THEN ParseFail
       ELSE [ok |-> TRUE, val |-> Float64Of(SubSeq(b, i, end - 1)), next |-> end]

\* json.Unmarshal(data, &elems): [ok, val, next].  An element is read key
\* by key: the column c, then the value v, then the operator o.
UnmarshalElements(b) ==
    LET kc == TextBytes(<<"{","\"","c","\"",":">>)
        kv == TextBytes(<<",","\"","v","\"",":">>)
        ko == TextBytes(<<",","\"","o","\"",":">>)
        AfterOperator(c, v, o) ==
            IF ~o.ok \/ ~HasLiteral(b, o.next, TextBytes(<<"}">>)) THEN ParseFail
            ELSE [ok |-> TRUE,
                  val |-> [Column |-> BytesText(c.val), Value |-> v.val,
                           Operator |-> IF Len(o.val) = 1 THEN BytesText(o.val)[1]
                                        ELSE ""],
                  next |-> o.next + 1]
        AfterValue(c, v) ==
            IF ~v.ok \/ ~HasLiteral(b, v.next, ko) THEN ParseFail
            ELSE AfterOperator(c, v, ParseString(b, v.next + Len(ko)))
        AfterColumn(c) ==
            IF ~c.ok \/ ~HasLiteral(b, c.next, kv) THEN ParseFail
            ELSE AfterValue(c, ParseValue(b, c.next + Len(kv)))
        ParseElement(i) ==
            IF ~HasLiteral(b, i, kc) THEN ParseFail
            ELSE AfterColumn(ParseString(b, i + Len(kc)))
        RECURSIVE From(_, _)
        AfterElement(e, acc) ==
            IF ~e.ok THEN ParseFail
            ELSE IF HasLiteral(b, e.next, TextBytes(<<",">>))
            THEN From(e.next + 1, Append(acc, e.val))
            ELSE IF HasLiteral(b, e.next, TextBytes(<<"]">>)) /\ e.next = Len(b)
            THEN [ok |-> TRUE, val |-> Append(acc, e.val), next |-> e.next + 1]
            ELSE ParseFail
        From(i, acc) == AfterElement(ParseElement(i), acc)
    IN IF b = TextBytes(<<"n","u","l","l">>) \/ b = TextBytes(<<"[","]">>)
       THEN [ok |-> TRUE, val |-> <<>>, next |-> Len(b) + 1]
       ELSE IF HasLiteral(b, 1, TextBytes(<<"[">>)) THEN From(2, <<>>)
       ELSE ParseFail

\* Mutant: only the nil cursor gives the empty token.
DefaultCursorStringOfElements(c) ==
    IF c.nil THEN <<>> ELSE Base64Encode(MarshalElements(c.elements))

\* DefaultCursor.String: the empty token for a nil or empty cursor,
\* otherwise base64 of the compact JSON of the elements.
DefaultCursorString(c) ==
    IF c.nil \/ Len(c.elements) = 0 THEN <<>>
    ELSE Base64Encode(MarshalElements(c.elements))

\* DecodeCursor: [cursor, err]; the empty token gives the nil cursor.
DecodeCursor(b64String) ==
    LET Unmarshalled(elems) ==
            IF ~elems.ok
            THEN [cursor |-> NilCursor, err |-> "failed to unmarshal json encoded cursor"]
            ELSE [cursor |-> [nil |-> FALSE, elements |-> elems.val, offset |-> 0],
                  err |-> NoErr]
        Decoded(jsonData) ==
            IF ~jsonData.ok
            THEN [cursor |-> NilCursor, err |-> "failed to decode base64 encoded cursor"]
            ELSE Unmarshalled(UnmarshalElements(jsonData.bytes))
    IN IF Len(b64String) = 0 THEN [cursor |-> NilCursor, err |-> NoErr]
       ELSE Decoded(Base64Decode(b64String))

(***************************************************************************)
(* limits.go: limit normalization.  The pair is (value, ok).               *)
(***************************************************************************)
\* Mutant: a limit equal to the maximum is clamped too.
IsNormalizedLimitMaxClampingEqual(limit, maxLimit) ==
    IF limit <= 0 THEN <<DefaultLimit, FALSE>>
    ELSE IF limit >= maxLimit THEN <<maxLimit, FALSE>>
    ELSE <<limit, TRUE>>

\* IsNormalizedLimitMax
IsNormalizedLimitMax(limit, maxLimit) ==
    IF limit <= 0 THEN <<DefaultLimit, FALSE>>
    ELSE IF limit > maxLimit THEN <<maxLimit, FALSE>>
    ELSE <<limit, TRUE>>

\* NormalizeLimitMax
NormalizeLimitMax(limit, maxLimit) == IsNormalizedLimitMax(limit, maxLimit)[1]

\* NormalizeLimit
NormalizeLimit(limit) == NormalizeLimitMax(limit, MaxLimit)

(***************************************************************************)
(* The builder calls of CursorPager.                                       *)
(***************************************************************************)
\* CursorPager.WithUnlimited
WithUnlimited(p) == [Receiver(p) EXCEPT !.limit = NoLimit]

\* Mutant: the sentinel is normalized like any other limit.
WithLimitNormalizingSentinel(p, limit) ==
    [Receiver(p) EXCEPT !.limit = NormalizeLimit(limit)]

\* CursorPager.WithLimit
WithLimit(p, limit) ==
    IF limit = NoLimit THEN WithUnlimited(Receiver(p))
    ELSE [Receiver(p) EXCEPT !.limit = NormalizeLimit(limit)]

\* Mutant: the previous occurrence of the column is kept.
sortUpsertKeepingPrevious(sort, o) == Append(sort, o)

\* The body of the loop of WithSort for one OrderBy: slices.IndexFunc by
\* column (the first position of the column, 0 for none), slices.Delete of
\* that position, append.
sortUpsert(sort, o) ==
    LET idx == IF \E i \in 1..Len(sort) : sort[i].Column = o.Column
               THEN CHOOSE i \in 1..Len(sort) :
                       /\ sort[i].Column = o.Column
                       /\ \A j \in 1..(i - 1) : sort[j].Column # o.Column
               ELSE 0
        deleted == SubSeq(sort, 1, idx - 1) \o SubSeq(sort, idx + 1, Len(sort))
    IN Append(IF idx # 0 THEN deleted ELSE sort, o)

\* CursorPager.WithSort
WithSort(p, orderBy) ==
    LET RECURSIVE From(_, _)
        From(sort, i) ==
            IF i > Len(orderBy) THEN sort ELSE From(sortUpsert(sort, orderBy[i]), i + 1)
    IN [Receiver(p) EXCEPT !.sort = From(Receiver(p).sort, 1)]

\* CursorPager.WithSubstitutedSort
WithSubstitutedSort(p, orderBy) ==
    WithSort([Receiver(p) EXCEPT !.sort = <<>>], orderBy)

\* The pager the decode entry points build around a decoded cursor:
\* (&CursorPager{cursor: cursor}).WithSubstitutedSort(orderBy...).WithLimit(limit)
DecodedPager(kind, cursor, orderBy, limit) ==
    WithLimit(WithSubstitutedSort([NewCursorPager(kind) EXCEPT !.cursor = cursor], orderBy),
              limit)

\* DecodeCursorPager: [pager, err], the nil pager with the decode error.
DecodeCursorPager(limit, rawStartToken, orderBy) ==
    LET Around(d) ==
            IF d.err # NoErr THEN [pager |-> NilPager("keyset"), err |-> d.err]
            ELSE [pager |-> DecodedPager("keyset", d.cursor, orderBy, limit), err |-> NoErr]
    IN Around(DecodeCursor(rawStartToken))

\* DecodePseudoCursorPager: [pager, err], the nil pager with the decode error.
DecodePseudoCursorPager(limit, rawStartToken, orderBy) ==
    LET Around(d) ==
            IF d.err # NoErr THEN [pager |-> NilPager("offset"), err |-> d.err]
            ELSE [pager |-> DecodedPager("offset", d.cursor, orderBy, limit), err |-> NoErr]
    IN Around(DecodePseudoCursor(rawStartToken))

(***************************************************************************)
(* A pager under construction: any sequence of builder calls on a nil or   *)
(* new pager; calls is the log of the calls made so far.                   *)
(***************************************************************************)
\* Largest number of builder calls in a sequence.
MaxCalls == 3

OrderByOf(column, direction) == [Column |-> column, Direction |-> direction]

\* Argument lists of WithSort / WithSubstitutedSort, with and without a
\* repeated column.
SortArgs ==
    {<<>>,
     <<OrderByOf(ColA, DirectionASC)>>,
     <<OrderByOf(ColA, DirectionDESC)>>,
     <<OrderByOf(ColB, DirectionASC)>>,
     <<OrderByOf(ColA, DirectionASC), OrderByOf(ColB, DirectionDESC)>>,
     <<OrderByOf(ColB, DirectionASC), OrderByOf(ColA, DirectionASC)>>,
     <<OrderByOf(ColA, DirectionASC), OrderByOf(ColA, DirectionDESC)>>,
     <<OrderByOf(ColA, DirectionASC), OrderByOf(ColB, DirectionASC),
       OrderByOf(ColA, DirectionDESC)>>}

\* Arguments of WithLimit.
LimitArgs == {NoLimit, -2, 0, 1, MaxLimit, MaxLimit + 1}

\* Arguments of WithCursor.
CursorArgs ==
    {NilCursor,
     NewDefaultCursor(<<[Column |-> ColA, Value |-> IntValue(0), Operator |-> OperatorGT]>>)}

BuilderCall(op, sort, n, cursor) == [op |-> op, sort |-> sort, n |-> n, cursor |-> cursor]

InitBuilder ==
    /\ pager \in {NilPager("keyset"), NewCursorPager("keyset")}
    /\ getters = {}
    /\ dataset = {}
    /\ db = <<>>
    /\ resultSet = <<>>
    /\ ret = NoRet
    /\ pages = <<>>
    /\ pc = "build"
    /\ calls = <<>>

DoWithLookahead ==
    /\ pc = "build" /\ Len(calls) < MaxCalls
    /\ pager' = WithLookahead(pager)
    /\ calls' = Append(calls, BuilderCall("WithLookahead", <<>>, 0, NilCursor))
    /\ UNCHANGED <<getters, dataset, db, resultSet, ret, pages, pc>>

DoWithUnlimited ==
    /\ pc = "build" /\ Len(calls) < MaxCalls
    /\ pager' = WithUnlimited(pager)
    /\ calls' = Append(calls, BuilderCall("WithUnlimited", <<>>, 0, NilCursor))
    /\ UNCHANGED <<getters, dataset, db, resultSet, ret, pages, pc>>

DoWithLimit ==
    /\ pc = "build" /\ Len(calls) < MaxCalls
    /\ \E limit \in LimitArgs :
          /\ pager' = WithLimit(pager, limit)
          /\ calls' = Append(calls, BuilderCall("WithLimit", <<>>, limit, NilCursor))
    /\ UNCHANGED <<getters, dataset, db, resultSet, ret, pages, pc>>

DoWithCursor ==
    /\ pc = "build" /\ Len(calls) < MaxCalls
    /\ \E cursor \in (IF pager.kind = "keyset" THEN CursorArgs
                       ELSE {NilCursor, NewPseudoCursor(2)}) :
          /\ pager' = WithCursor(pager, cursor)
          /\ calls' = Append(calls, BuilderCall("WithCursor", <<>>, 0, cursor))
    /\ UNCHANGED <<getters, dataset, db, resultSet, ret, pages, pc>>

DoWithSort ==
    /\ pc = "build" /\ Len(calls) < MaxCalls
    /\ \E orderBy \in SortArgs :
          /\ pager' = WithSort(pager, orderBy)
          /\ calls' = Append(calls, BuilderCall("WithSort", orderBy, 0, NilCursor))
    /\ UNCHANGED <<getters, dataset, db, resultSet, ret, pages, pc>>

DoWithSubstitutedSort ==
    /\ pc = "build" /\ Len(calls) < MaxCalls
    /\ \E orderBy \in SortArgs :
          /\ pager' = WithSubstitutedSort(pager, orderBy)
          /\ calls' = Append(calls, BuilderCall("WithSubstitutedSort", orderBy, 0, NilCursor))
    /\ UNCHANGED <<getters, dataset, db, resultSet, ret, pages, pc>>

\* Orderings given to the decode entry points.
DecodeSortArgs ==
    {<<OrderByOf(ColA, DirectionASC)>>,
     <<OrderByOf(ColA, DirectionASC), OrderByOf(ColA, DirectionDESC)>>}

\* A pager obtained from DecodeCursorPager instead of NewCursorPager; the
\* start token is none, a cursor's token, or a text that is no base64.
DoDecodeCursorPager ==
    /\ pc = "build" /\ calls = <<>>
    /\ \E limit \in LimitArgs, orderBy \in DecodeSortArgs,
          token \in {<<>>, DefaultCursorString(CHOOSE c \in CursorArgs : ~c.nil), <<"!">>} :
          LET Returned(r) ==
                  /\ pager' = r.pager
                  /\ ret' = [op |-> "DecodeCursorPager", err |-> r.err]
                  /\ calls' = Append(calls, BuilderCall("DecodeCursorPager", orderBy,
                                                        limit, r.pager.cursor))
          IN Returned(DecodeCursorPager(limit, token, orderBy))
    /\ UNCHANGED <<getters, dataset, db, resultSet, pages, pc>>

\* A pager obtained from DecodePseudoCursorPager.
DoDecodePseudoCursorPager ==
    /\ pc = "build" /\ calls = <<>>
    /\ \E limit \in LimitArgs, orderBy \in DecodeSortArgs,
          token \in {<<>>, PseudoCursorString(NewPseudoCursor(2)), <<"!">>} :
          LET Returned(r) ==
                  /\ pager' = r.pager
                  /\ ret' = [op |-> "DecodePseudoCursorPager", err |-> r.err]
                  /\ calls' = Append(calls, BuilderCall("DecodePseudoCursorPager", orderBy,
                                                        limit, r.pager.cursor))
          IN Returned(DecodePseudoCursorPager(limit, token, orderBy))
    /\ UNCHANGED <<getters, dataset, db, resultSet, pages, pc>>

NextBuilder ==
    \/ DoDecodeCursorPager
    \/ DoDecodePseudoCursorPager
    \/ DoWithLookahead
    \/ DoWithUnlimited
    \/ DoWithLimit
    \/ DoWithCursor
    \/ DoWithSort
    \/ DoWithSubstitutedSort

SpecBuilder == InitBuilder /\ [][NextBuilder]_vars

(***************************************************************************)
(* C12.  After any sequence of WithSort and WithSubstitutedSort calls on a  *)
(* nil or new pager,                                                       *)
(* also with argument lists that repeat a column, no two orderings of the  *)
(* pager share a column, and the orderings are the OrderBys supplied since *)
(* the last substitution, each column represented by the one supplied      *)
(* last, in the order in which those were supplied.                        *)
(***************************************************************************)
RECURSIVE SuppliedFrom(_, _)
\* The OrderBys supplied by calls i.. of the log, a substitution discarding
\* what was supplied before it.
SuppliedFrom(log, i) ==
    IF i > Len(log) THEN <<>>
    ELSE IF \E j \in (i + 1)..Len(log) : log[j].op = "WithSubstitutedSort"
         THEN SuppliedFrom(log, i + 1)
    ELSE (IF log[i].op \in {"WithSort", "WithSubstitutedSort"} THEN log[i].sort ELSE <<>>)
         \o SuppliedFrom(log, i + 1)

RECURSIVE LastSuppliedFrom(_, _)
\* The entries of a list that no later entry of the same column follows.
LastSuppliedFrom(l, i) ==
    IF i > Len(l) THEN <<>>
    ELSE (IF \E j \in (i + 1)..Len(l) : l[j].Column = l[i].Column THEN <<>> ELSE <<l[i]>>)
         \o LastSuppliedFrom(l, i + 1)

\* The entry points that build a pager from a token.
DecodeOps == {"DecodeCursorPager", "DecodePseudoCursorPager"}

C12_SortUpsert ==
    (pc = "build" /\ (calls # <<>> => calls[1].op \notin DecodeOps)) =>
        /\ \A i, j \in 1..Len(pager.sort) :
              i # j => pager.sort[i].Column # pager.sort[j].Column
        /\ pager.sort = LastSuppliedFrom(SuppliedFrom(calls, 1), 1)

C12_Witness ==
    /\ pc = "build"
    /\ Len(calls) = 2
    /\ calls[1].op = "WithSort" /\ Len(calls[1].sort) = 2
    /\ calls[2].op = "WithSort" /\ Len(calls[2].sort) = 2
    /\ calls[2].sort[1].Column = calls[2].sort[2].Column
    /\ calls[2].sort[1].Column = calls[1].sort[1].Column
    /\ Len(pager.sort) = 2
    /\ pager.sort[2] = calls[2].sort[2]
    /\ pager.sort[1] = calls[1].sort[2]

(***************************************************************************)
(* C13.  WithLimit(l), and the decode entry points that call it, put the   *)
(* pager in unlimited mode when l is NoLimit and otherwise store           *)
(* NormalizeLimit(l): after any builder sequence whose last limit-setting  *)
(* call is one of them, the stored limit is NoLimit exactly when l is, and *)
(* otherwise lies in 1..MaxLimit, every other l <= 0 becoming DefaultLimit.*)
(***************************************************************************)
\* Call i of the log set the limit (a failed decode builds no pager).
SetsLimit(log, i) ==
    \/ log[i].op \in {"WithLimit", "WithUnlimited"}
    \/ log[i].op \in DecodeOps /\ ret.err = NoErr

\* The last limit-setting call of the log, 0 for none.
LastLimitCall(log) ==
    IF \E i \in 1..Len(log) : SetsLimit(log, i)
    THEN CHOOSE i \in 1..Len(log) :
            SetsLimit(log, i) /\ \A j \in (i + 1)..Len(log) : ~SetsLimit(log, j)
    ELSE 0

C13_LimitStored ==
    (pc = "build" /\ LastLimitCall(calls) # 0
        /\ calls[LastLimitCall(calls)].op # "WithUnlimited") =>
        LET l == calls[LastLimitCall(calls)].n
        IN /\ (l = NoLimit) <=> (pager.limit = NoLimit)
           /\ l # NoLimit => pager.limit = NormalizeLimit(l)
           /\ pager.limit = NoLimit \/ pager.limit \in 1..MaxLimit
           /\ (l <= 0 /\ l # NoLimit) => pager.limit = DefaultLimit
           /\ l \in 1..MaxLimit => pager.limit = l
           /\ l > MaxLimit => pager.limit = MaxLimit

\* C13 witness: a decoded unlimited pager, then WithLimit above the
\* maximum, then another call: the limit is MaxLimit.
C13_Witness ==
    /\ pc = "build" /\ Len(calls) = 3
    /\ calls[1].op = "DecodeCursorPager" /\ ret.err = NoErr /\ calls[1].n = NoLimit
    /\ calls[2].op = "WithLimit" /\ calls[2].n > MaxLimit
    /\ calls[3].op = "WithSort"
    /\ pager.limit = MaxLimit

(***************************************************************************)
(* The limit normalizers on their own: each is called with any requested   *)
(* limit and any maximum of a range around zero, the default and the       *)
(* package maximum; ret holds the arguments and the results of the call.   *)
(***************************************************************************)
\* Largest small argument of the normalizers.
MaxArg == 12

LimitInputs == (0 - MaxArg)..MaxArg \cup {MaxLimit - 1, MaxLimit, MaxLimit + 1}
InitLimits ==
    /\ pager = NilPager("keyset")
    /\ getters = {}
    /\ dataset = {}
    /\ db = <<>>
    /\ resultSet = <<>>
    /\ ret = NoRet
    /\ pages = <<>>
    /\ pc = "limits"
    /\ calls = <<>>

CallIsNormalizedLimitMax ==
    /\ pc = "limits"
    /\ \E limit \in LimitInputs, maxLimit \in (0 - 1)..MaxArg \cup {MaxLimit} :
          ret' = [op |-> "IsNormalizedLimitMax", err |-> NoErr, limit |-> limit,
                  maxLimit |-> maxLimit,
                  value |-> IsNormalizedLimitMax(limit, maxLimit)[1],
                  ok |-> IsNormalizedLimitMax(limit, maxLimit)[2]]
    /\ UNCHANGED <<pager, getters, dataset, db, resultSet, pages, pc, calls>>

CallNormalizeLimitMax ==
    /\ pc = "limits"
    /\ \E limit \in LimitInputs, maxLimit \in (0 - 1)..MaxArg \cup {MaxLimit} :
          ret' = [op |-> "NormalizeLimitMax", err |-> NoErr, limit |-> limit,
                  maxLimit |-> maxLimit, value |-> NormalizeLimitMax(limit, maxLimit),
                  ok |-> FALSE]
    /\ UNCHANGED <<pager, getters, dataset, db, resultSet, pages, pc, calls>>

CallNormalizeLimit ==
    /\ pc = "limits"
    /\ \E limit \in LimitInputs :
          ret' = [op |-> "NormalizeLimit", err |-> NoErr, limit |-> limit,
                  maxLimit |-> MaxLimit,
                  value |-> NormalizeLimit(limit),
                  ok |-> FALSE]
    /\ UNCHANGED <<pager, getters, dataset, db, resultSet, pages, pc, calls>>

NextLimits ==
    \/ CallIsNormalizedLimitMax
    \/ CallNormalizeLimitMax
    \/ CallNormalizeLimit

SpecLimits == InitLimits /\ [][NextLimits]_vars

(***************************************************************************)
(* C14.  IsNormalizedLimitMax(limit, max) returns (DefaultLimit, false)    *)
(* when limit <= 0, (max, false) when limit > max, and (limit, true)       *)
(* otherwise; the boolean is true exactly when the returned value equals   *)
(* the requested limit; NormalizeLimitMax and NormalizeLimit return the    *)
(* same integer, NormalizeLimit with max = MaxLimit.                       *)
(***************************************************************************)
\* The integer the claim states for a requested limit and a maximum.
ClaimedLimit(limit, maxLimit) ==
    CASE limit <= 0 -> DefaultLimit
      [] limit > 0 /\ limit > maxLimit -> maxLimit
      [] OTHER -> limit

C14_Normalize ==
    pc = "limits" /\ ret.op # "" =>
        /\ ret.value = ClaimedLimit(ret.limit, ret.maxLimit)
        /\ ret.op = "IsNormalizedLimitMax" =>
              /\ ret.ok <=> (ret.limit > 0 /\ ret.limit <= ret.maxLimit)
              /\ ret.ok <=> (ret.value = ret.limit)
        /\ ret.op = "NormalizeLimit" => ret.maxLimit = MaxLimit

\* C14 witness: a requested limit equal to the maximum is kept and
\* reported as already normalized.
C14_Witness ==
    /\ pc = "limits" /\ ret.op = "IsNormalizedLimitMax"
    /\ ret.limit = ret.maxLimit /\ ret.limit > DefaultLimit
    /\ ret.value = ret.limit /\ ret.ok

(***************************************************************************)
(* Cursors and their tokens: a cursor of either variant is serialized with *)
(* String, a token (the one just produced, or one from outside) is decoded *)
(* into the pager's cursor, and so on; calls logs the receiver or result,  *)
(* the token and the error of every call.                                  *)
(***************************************************************************)
\* Largest offset of the consecutive offsets tried.
MaxOffset == 12

\* Largest number of String / Decode calls in a sequence.
MaxTokenCalls == 3

TokenCall(op, cursor, token, err) ==
    [op |-> op, cursor |-> cursor, token |-> token, err |-> err]

TokenRet(op, token, err) == [op |-> op, err |-> err, token |-> token]

\* The cursors serialized.  Keyset cursors: nil, empty, of one element and
\* of two, with values that are Go ints, one of them above 2^53, a
\* timestamp as a string and as a time.Time, a string with characters that
\* JSON escapes, and a float64.  Offset cursors: nil and offsets of one to
\* five digits, on the pager that the next-page cursors are derived with.
InitToken ==
    /\ LET TokenValues ==
               {IntValue(1), IntValue(0 - 12),
                BigIntValue(TextBytes(<<"9","0","0","7","1","9","9","2",
                                        "5","4","7","4","0","9","9","3">>)),
                TimeText(3), [k |-> "time", n |-> 3], StringValue(<<"a", "\"", "<">>),
                [k |-> "float", n |-> 2]}
           TokenElements(column, values) ==
               {[Column |-> column, Value |-> v, Operator |-> o] :
                   v \in values, o \in {OperatorGT, OperatorLT}}
           TokenCursors ==
               {NilCursor, NewDefaultCursor(<<>>)}
               \cup {NewDefaultCursor(<<e>>) : e \in TokenElements(ColA, TokenValues)}
               \cup {NewDefaultCursor(<<e1, e2>>) :
                       e1 \in TokenElements(ColA, {[k |-> "time", n |-> 3], IntValue(1)}),
                       e2 \in TokenElements(ColB, {IntValue(1),
                                                   StringValue(<<"a", "\"", "<">>)})}
           Offsets == 0..MaxOffset \cup {99, 100, 12345}
           OffsetPager ==
               WithLimit(WithSort(NewCursorPager("offset"),
                                  <<OrderByOf(ColA, DirectionASC)>>), 2)
       IN \/ \E c \in TokenCursors : pager = WithCursor(NewCursorPager("keyset"), c)
          \/ \E n \in Offsets : pager = WithCursor(OffsetPager, NewPseudoCursor(n))
          \/ pager = OffsetPager
    /\ getters = {}
    /\ dataset = {}
    /\ db = <<>>
    /\ resultSet = <<>>
    /\ ret = NoRet
    /\ pages = <<>>
    /\ pc = "token"
    /\ calls = <<>>

CallDefaultCursorString ==
    /\ pc = "token" /\ pager.kind = "keyset" /\ Len(calls) < MaxTokenCalls
    /\ LET token == DefaultCursorString(pager.cursor)
       IN /\ ret' = TokenRet("String", token, NoErr)
          /\ calls' = Append(calls, TokenCall("String", pager.cursor, token, NoErr))
    /\ UNCHANGED <<pager, getters, dataset, db, resultSet, pages, pc>>

CallPseudoCursorString ==
    /\ pc = "token" /\ pager.kind = "offset" /\ Len(calls) < MaxTokenCalls
    /\ LET token == PseudoCursorString(pager.cursor)
       IN /\ ret' = TokenRet("String", token, NoErr)
          /\ calls' = Append(calls, TokenCall("String", pager.cursor, token, NoErr))
    /\ UNCHANGED <<pager, getters, dataset, db, resultSet, pages, pc>>

\* DecodeCursor of the token the last call produced or was given, or of a
\* token from outside: none, no base64, no JSON, and the empty list.
CallDecodeCursor ==
    /\ pc = "token" /\ pager.kind = "keyset" /\ Len(calls) < MaxTokenCalls
    /\ \E token \in {<<>>, <<"!">>, Base64Encode(TextBytes(<<"a", "b", "c">>)),
                     Base64Encode(TextBytes(<<"[", "]">>))}
                    \cup (IF "token" \in DOMAIN ret THEN {ret.token} ELSE {}) :
          LET Returned(d) ==
                  /\ pager' = WithCursor(pager, d.cursor)
                  /\ ret' = TokenRet("Decode", token, d.err)
                  /\ calls' = Append(calls, TokenCall("Decode", d.cursor, token, d.err))
          IN Returned(DecodeCursor(token))
    /\ UNCHANGED <<getters, dataset, db, resultSet, pages, pc>>

\* DecodePseudoCursor of the token the last call produced or was given, or
\* of a token from outside: none, no base64, no number, zero, a negative
\* and a signed number.
CallDecodePseudoCursor ==
    /\ pc = "token" /\ pager.kind = "offset" /\ Len(calls) < MaxTokenCalls
    /\ \E token \in {<<>>, <<"!">>, Base64Encode(TextBytes(<<"a", "b", "c">>)),
                     Base64Encode(TextBytes(<<"0">>)), Base64Encode(TextBytes(<<"-", "5">>)),
                     Base64Encode(TextBytes(<<"+", "5">>))}
                    \cup (IF "token" \in DOMAIN ret THEN {ret.token} ELSE {}) :
          LET d == DecodePseudoCursor(token)
          IN /\ pager' = WithCursor(pager, d.cursor)
             /\ ret' = TokenRet("Decode", token, d.err)
             /\ calls' = Append(calls, TokenCall("Decode", d.cursor, token, d.err))
    /\ UNCHANGED <<getters, dataset, db, resultSet, pages, pc>>

\* NextPagePseudoCursor on a result set of any length up to MaxRes; the
\* client's next request carries the derived cursor.
DeriveNextPagePseudoCursor ==
    /\ pc = "token" /\ pager.kind = "offset" /\ Len(calls) < MaxTokenCalls
    /\ \E n \in 0..MaxRes :
          LET r == NextPagePseudoCursor(pager, [i \in 1..n |-> ZeroRow])
          IN /\ resultSet' = [i \in 1..n |-> ZeroRow]
             /\ ret' = r
             /\ pager' = IF r.err = NoErr /\ ~r.cursor.nil THEN WithCursor(pager, r.cursor)
                         ELSE pager
             /\ calls' = Append(calls, TokenCall("NextPagePseudoCursor", r.cursor, <<>>, r.err))
    /\ UNCHANGED <<getters, dataset, db, pages, pc>>

NextToken ==
    \/ DeriveNextPagePseudoCursor
    \/ CallDefaultCursorString
    \/ CallPseudoCursorString
    \/ CallDecodeCursor
    \/ CallDecodePseudoCursor

SpecToken == InitToken /\ [][NextToken]_vars

(***************************************************************************)
(* C15.  For every offset cursor with offset n > 0, decoding its token     *)
(* succeeds and yields offset n; the cursor of offset 0 and the nil cursor *)
(* serialize to the empty token, and the empty token decodes without error *)
(* to a cursor whose offset is 0 and that is empty.                        *)
(***************************************************************************)
\* Call i of the log decodes the token that call i-1 produced.
DecodesPrevious(i) ==
    /\ i > 1
    /\ calls[i - 1].op = "String" /\ calls[i].op = "Decode"
    /\ calls[i].token = calls[i - 1].token

C15_PseudoRoundTrip ==
    (pc = "token" /\ pager.kind = "offset") =>
        \A i \in 1..Len(calls) :
            /\ (calls[i].op = "String" /\ GetOffset(calls[i].cursor) = 0)
                  => calls[i].token = <<>>
            /\ (calls[i].op = "Decode" /\ calls[i].token = <<>>)
                  => /\ calls[i].err = NoErr
                     /\ GetOffset(calls[i].cursor) = 0
                     /\ PseudoCursorIsEmpty(calls[i].cursor)
            /\ (DecodesPrevious(i) /\ GetOffset(calls[i - 1].cursor) > 0)
                  => /\ calls[i].err = NoErr
                     /\ GetOffset(calls[i].cursor) = GetOffset(calls[i - 1].cursor)

\* C15 witness: the token of a cursor with an offset of several digits has
\* been decoded back to that offset.
C15_Witness ==
    /\ pc = "token" /\ pager.kind = "offset" /\ Len(calls) = 2
    /\ DecodesPrevious(2)
    /\ GetOffset(calls[1].cursor) = 12345
    /\ calls[2].err = NoErr /\ GetOffset(calls[2].cursor) = 12345

(***************************************************************************)
(* C16.  For every keyset cursor built from valid elements, decoding its   *)
(* token succeeds and yields the same elements (column, value, operator)   *)
(* in the same order, and serializing the decoded cursor gives the same    *)
(* token again; the empty element list serializes to the empty token,      *)
(* which decodes to the empty cursor.  Values are compared as the database *)
(* compares them: a number by its numeric value whatever its Go type, a    *)
(* timestamp by its instant.                                               *)
(***************************************************************************)
\* Two values are the same number, the same instant or the same string.
SameValue(a, b) ==
    IF a.k \in {"int", "float"}
    THEN /\ b.k \in {"int", "float"}
         /\ ("digits" \in DOMAIN a) = ("digits" \in DOMAIN b)
         /\ IF "digits" \in DOMAIN a THEN a.digits = b.digits ELSE a.n = b.n
    ELSE IF a.k \in {"timetext", "time"}
    THEN b.k \in {"timetext", "time"} /\ a.n = b.n
    ELSE a = b

SameElements(x, y) ==
    /\ Len(x) = Len(y)
    /\ \A i \in 1..Len(x) :
          /\ x[i].Column = y[i].Column
          /\ x[i].Operator = y[i].Operator
          /\ SameValue(x[i].Value, y[i].Value)

C16_KeysetRoundTrip ==
    (pc = "token" /\ pager.kind = "keyset") =>
        \A i \in 1..Len(calls) :
            /\ (calls[i].op = "String" /\ DefaultCursorIsEmpty(calls[i].cursor))
                  => calls[i].token = <<>>
            /\ (calls[i].op = "Decode" /\ calls[i].token = <<>>)
                  => calls[i].err = NoErr /\ DefaultCursorIsEmpty(calls[i].cursor)
            /\ DecodesPrevious(i)
                  => /\ calls[i].err = NoErr
                     /\ SameElements(calls[i].cursor.elements, calls[i - 1].cursor.elements)
            /\ (DecodesPrevious(i) /\ i < Len(calls) /\ calls[i + 1].op = "String")
                  => calls[i + 1].token = calls[i].token

(***************************************************************************)
(* The four capabilities of a cursor on their own: String, IsEmpty,        *)
(* validate and Apply, on a nil, an empty and a non-empty cursor of either *)
(* variant, against any orderings, Apply on a builder that carries the     *)
(* orderings and is executed over any dataset.                             *)
(***************************************************************************)
InitCapability ==
    /\ \E kind \in {"keyset", "offset"}, orderBy \in SortArgs :
          /\ \E c \in (IF kind = "keyset"
                       THEN {NilCursor, NewDefaultCursor(<<>>),
                             NewDefaultCursor(<<[Column |-> ColA, Value |-> IntValue(0),
                                                 Operator |-> OperatorGT]>>)}
                       ELSE {NilCursor, NewPseudoCursor(0), NewPseudoCursor(1)}) :
                pager = WithCursor(WithSort(NewCursorPager(kind), orderBy), c)
          /\ db = OrderingsApply(WithSort(NewCursorPager(kind), orderBy).sort, <<>>)
    /\ getters = {}
    /\ dataset \in Datasets
    /\ resultSet = <<>>
    /\ ret = NoRet
    /\ pages = <<>>
    /\ pc = "call"
    /\ calls = <<>>

\* cursor.String()
CallCursorString ==
    /\ pc = "call"
    /\ ret' = TokenRet("String",
                       IF pager.kind = "keyset" THEN DefaultCursorString(pager.cursor)
                       ELSE PseudoCursorString(pager.cursor),
                       NoErr)
    /\ pc' = "returned"
    /\ UNCHANGED <<pager, getters, dataset, db, resultSet, pages, calls>>

\* cursor.IsEmpty()
CallCursorIsEmpty ==
    /\ pc = "call"
    /\ ret' = [op |-> "IsEmpty", err |-> NoErr,
               empty |-> IF pager.kind = "keyset" THEN DefaultCursorIsEmpty(pager.cursor)
                         ELSE PseudoCursorIsEmpty(pager.cursor)]
    /\ pc' = "returned"
    /\ UNCHANGED <<pager, getters, dataset, db, resultSet, pages, calls>>

\* cursor.validate(orderings), of either variant
CallCursorValidateOrderings ==
    /\ pc = "call"
    /\ ret' = [op |-> "validate",
               err |-> IF pager.kind = "keyset"
                       THEN DefaultCursorValidate(pager.cursor, pager.sort)
                       ELSE PseudoCursorValidate(pager.cursor, pager.sort)]
    /\ pc' = "returned"
    /\ UNCHANGED <<pager, getters, dataset, db, resultSet, pages, calls>>

\* cursor.Apply(db); ret keeps the builder as it was before.
CallCursorApply ==
    /\ pc = "call"
    /\ db' = CursorApply(pager, db)
    /\ ret' = [op |-> "Apply", err |-> NoErr, before |-> db]
    /\ pc' = "returned"
    /\ UNCHANGED <<pager, getters, dataset, resultSet, pages, calls>>

NextCapability ==
    \/ CallCursorString
    \/ CallCursorIsEmpty
    \/ CallCursorValidateOrderings
    \/ CallCursorApply

SpecCapability == InitCapability /\ [][NextCapability]_vars

(***************************************************************************)
(* C17.  For both cursor variants a nil cursor behaves like the empty      *)
(* cursor (no elements / offset 0) in all four capabilities: String        *)
(* returns the empty token, IsEmpty returns true, validate succeeds        *)
(* against any orderings, and Apply contributes nothing to the query: the  *)
(* keyset cursor makes no call and the offset cursor's Offset(0) leaves    *)
(* what the query returns unchanged; and String is the empty token         *)
(* exactly when IsEmpty is true.                                           *)
(***************************************************************************)
\* The cursor is nil or the empty cursor of its variant.
NilOrEmpty(p) ==
    \/ p.cursor.nil
    \/ p.kind = "keyset" /\ Len(p.cursor.elements) = 0
    \/ p.kind = "offset" /\ p.cursor.offset = 0

C17_NilAsEmpty ==
    pc = "returned" =>
        /\ ret.op = "String" => ((ret.token = <<>>) <=> NilOrEmpty(pager))
        /\ ret.op = "IsEmpty" => (ret.empty <=> NilOrEmpty(pager))
        /\ (ret.op = "validate" /\ NilOrEmpty(pager)) => ret.err = NoErr
        /\ (ret.op = "Apply" /\ NilOrEmpty(pager)) =>
              /\ QueryResults(db, dataset) = QueryResults(ret.before, dataset)
              /\ pager.kind = "keyset" => db = ret.before
              /\ db = CursorApply(WithCursor(pager, NilCursor), ret.before)

\* C17 witness: Apply of a nil offset cursor on a builder whose query
\* returns rows.
C17_Witness ==
    /\ pc = "returned" /\ ret.op = "Apply"
    /\ pager.kind = "offset" /\ pager.cursor.nil
    /\ Cardinality(dataset) >= 2
    /\ Len(db) = Len(ret.before) + 1

(***************************************************************************)
(* C18.  Every builder call is idempotent: the same call with the same     *)
(* arguments right after itself leaves the pager unchanged; and calls that *)
(* configure different aspects (cursor, limit, lookahead, orderings) give  *)
(* the same pager in any order: the pager is the one that the calls give   *)
(* when they are made aspect by aspect.                                    *)
(***************************************************************************)
\* The aspect of the pager a builder call configures.
AspectOf(op) ==
    CASE op = "WithCursor" -> 1
      [] op \in {"WithLimit", "WithUnlimited"} -> 2
      [] op = "WithLookahead" -> 3
      [] op \in {"WithSort", "WithSubstitutedSort"} -> 4

RECURSIVE CallsOfAspect(_, _, _)
\* The calls i.. of the log that configure the aspect, in their order.
CallsOfAspect(log, aspect, i) ==
    IF i > Len(log) THEN <<>>
    ELSE (IF AspectOf(log[i].op) = aspect THEN <<log[i]>> ELSE <<>>)
         \o CallsOfAspect(log, aspect, i + 1)

\* The pager after one logged call.
AfterCall(p, c) ==
    CASE c.op = "WithCursor" -> WithCursor(p, c.cursor)
      [] c.op = "WithLimit" -> WithLimit(p, c.n)
      [] c.op = "WithUnlimited" -> WithUnlimited(p)
      [] c.op = "WithLookahead" -> WithLookahead(p)
      [] c.op = "WithSort" -> WithSort(p, c.sort)
      [] c.op = "WithSubstitutedSort" -> WithSubstitutedSort(p, c.sort)

RECURSIVE AfterCalls(_, _, _)
AfterCalls(p, log, i) ==
    IF i > Len(log) THEN p ELSE AfterCalls(AfterCall(p, log[i]), log, i + 1)

\* The pager the logged calls started from, and the calls made on it.
StartPager ==
    IF calls # <<>> /\ calls[1].op \in DecodeOps
    THEN LET kind == IF calls[1].op = "DecodeCursorPager" THEN "keyset" ELSE "offset"
         IN IF ret.err # NoErr THEN NilPager(kind)
            ELSE DecodedPager(kind, calls[1].cursor, calls[1].sort, calls[1].n)
    ELSE NilPager("keyset")

BuilderCalls ==
    IF calls # <<>> /\ calls[1].op \in DecodeOps THEN Tail(calls) ELSE calls

\* The logged calls made aspect by aspect.
AspectByAspect ==
    CallsOfAspect(BuilderCalls, 1, 1) \o CallsOfAspect(BuilderCalls, 2, 1)
    \o CallsOfAspect(BuilderCalls, 3, 1) \o CallsOfAspect(BuilderCalls, 4, 1)

C18_AnyOrder ==
    (pc = "build" /\ BuilderCalls # <<>>) =>
        pager = AfterCalls(StartPager, AspectByAspect, 1)

C18_Repeat ==
    (pc = "build" /\ calls # <<>> /\ calls' = Append(calls, calls[Len(calls)]))
        => pager' = pager

\* C18: a repeated call changes nothing, and the order of calls on
\* different aspects does not matter.
C18_Idempotent == [][C18_Repeat]_vars /\ []C18_AnyOrder

\* C18 witness: orderings first, then the same WithCursor call twice.
C18_Witness ==
    /\ pc = "build" /\ Len(calls) = 3
    /\ calls[1].op = "WithSort" /\ Len(calls[1].sort) = 3
    /\ calls[2].op = "WithCursor" /\ ~calls[2].cursor.nil
    /\ calls[3] = calls[2]
    /\ pager.cursor = calls[2].cursor /\ Len(pager.sort) = 2

(***************************************************************************)
(* The documented handler (README, examples/http-api): it enables          *)
(* lookahead, paginates and executes the query, and then derives the page  *)
(* and the next cursor with IsLastPage, TrimResultSet and NextPageCursor,  *)
(* the last one called with the trimmed rows.                              *)
(***************************************************************************)
InitHandler ==
    /\ \E sort \in ValidSorts, limit \in 1..MaxPage :
          pager = WithLookahead(RequestPager("keyset", sort, limit, FALSE))
    /\ getters = RowCols
    /\ dataset \in Datasets
    /\ db = <<>>
    /\ resultSet = <<>>
    /\ ret = NoRet
    /\ pages = <<>>
    /\ pc = "paginate"
    /\ calls = <<>>

\* The response of getUsersHandler to the rows the query returned.
HandlerResponse(p, users, g) ==
    LET isLastPage == IsLastPage(p, users)
        trimmedUsers == TrimResultSet(p, users)
        next == NextPageCursor(p, trimmedUsers, g)
        HandlerRet(err, last, rows, cursor) ==
            [op |-> "getUsersHandler", err |-> err, isLastPage |-> last, rows |-> rows,
             cursor |-> cursor, hasMore |-> ~cursor.nil]
    IN IF TrimPanics(p, users) THEN HandlerRet(Panic, isLastPage, <<>>, NilCursor)
       ELSE IF isLastPage THEN HandlerRet(NoErr, isLastPage, trimmedUsers, NilCursor)
       ELSE IF next.err # NoErr THEN HandlerRet(next.err, isLastPage, <<>>, NilCursor)
       ELSE HandlerRet(NoErr, isLastPage, trimmedUsers, next.cursor)

\* The handler derives the page and the next page token.
DoRespond ==
    /\ pc = "next"
    /\ ret' = HandlerResponse(pager, resultSet, getters)
    /\ pages' = pages \o ret'.rows
    /\ pc' = "responded"
    /\ UNCHANGED <<pager, getters, dataset, db, resultSet, calls>>

NextHandler ==
    \/ DoPaginate
    \/ Execute
    \/ DoRespond

SpecHandler == InitHandler /\ [][NextHandler]_vars

(***************************************************************************)
(* C19.  With lookahead enabled, whenever IsLastPage(pager, rows) is       *)
(* false, the documented handler sequence, TrimResultSet and then          *)
(* NextPageCursor on the trimmed rows, returns a non-nil next-page cursor, *)
(* so the handler reports HasMore = true exactly when further pages exist. *)
(***************************************************************************)
C19_HandlerHasMore ==
    (pc = "responded" /\ ret.err = NoErr) =>
        /\ ~ret.isLastPage => ~ret.cursor.nil
        /\ ret.hasMore <=> (Len(resultSet) > pager.limit)

(***************************************************************************)
(* C20.  Every offset cursor obtained from a successful DecodePseudoCursor *)
(* and every cursor NextPagePseudoCursor derives from it has a             *)
(* non-negative offset: a token whose decoded text is a negative integer   *)
(* is rejected with a decode error.                                        *)
(***************************************************************************)
C20_NonNegativeOffset ==
    (pc = "token" /\ pager.kind = "offset") =>
        \A i \in 1..Len(calls) :
            (calls[i].op \in {"Decode", "NextPagePseudoCursor"} /\ calls[i].err = NoErr)
                => GetOffset(calls[i].cursor) >= 0

(***************************************************************************)
(* C30.  For every requested limit and every maximum >= 1, the value       *)
(* returned by NormalizeLimitMax and IsNormalizedLimitMax lies within      *)
(* 1..maximum, also when the requested limit is <= 0 and the default is    *)
(* substituted.                                                            *)
(***************************************************************************)
C30_WithinMaximum ==
    (/\ pc = "limits"
     /\ ret.op \in {"IsNormalizedLimitMax", "NormalizeLimitMax"}
     /\ ret.maxLimit >= 1) =>
        ret.value \in 1..ret.maxLimit

(***************************************************************************)
(* ordering.go: ParseSort and closestAlias.  A string is the sequence of   *)
(* its characters, as column names are.                                    *)
(***************************************************************************)
\* strings.ToUpper on the letters a-z; other characters are kept.
ToUpper(s) ==
    [i \in 1..Len(s) |->
        IF Base64Value(s[i]) \in 26..51 THEN Base64Alphabet[Base64Value(s[i]) - 25]
        ELSE s[i]]

\* strings.TrimSpace: leading and trailing white space removed.
TrimSpace(s) ==
    LET White == {" ", "\t", "\n", "\r"}
        inner == {i \in 1..Len(s) : s[i] \notin White}
        Least(S) == CHOOSE i \in S : \A j \in S : i <= j
        Greatest(S) == CHOOSE i \in S : \A j \in S : i >= j
    IN IF inner = {} THEN <<>> ELSE SubSeq(s, Least(inner), Greatest(inner))

\* strings.Split(s, " "): the pieces between single spaces, empty pieces
\* included; one piece for a string without a space.
SplitSpace(s) ==
    LET RECURSIVE From(_, _, _)
        From(i, piece, pieces) ==
            IF i > Len(s) THEN Append(pieces, piece)
            ELSE IF s[i] = " " THEN From(i + 1, <<>>, Append(pieces, piece))
            ELSE From(i + 1, Append(piece, s[i]), pieces)
    IN From(1, <<>>, <<>>)

\* levenshtein: the classic edit distance of two rune slices, row by row.
levenshtein(a, b) ==
    LET Least(x, y) == IF x <= y THEN x ELSE y
        RECURSIVE Cells(_, _, _)
        Cells(i, prev, cur) ==
            LET j == Len(cur)
                cost == IF a[i] = b[j] THEN 0 ELSE 1
            IN IF j > Len(b) THEN cur
               ELSE Cells(i, prev,
                          Append(cur, Least(Least(prev[j + 1] + 1, cur[j] + 1),
                                            prev[j] + cost)))
        RECURSIVE Lines(_, _)
        Lines(i, prev) ==
            IF i > Len(a) THEN prev[Len(b) + 1]
            ELSE Lines(i + 1, Cells(i, prev, <<i>>))
    IN Lines(1, [j \in 1..(Len(b) + 1) |-> j - 1])

\* Mutant: a later alias at the same distance replaces the earlier one.
closestAliasTakingLast(input, dataSet) ==
    LET RECURSIVE From(_, _, _)
        From(i, minDist, closest) ==
            IF i > Len(dataSet) THEN closest
            ELSE IF minDist = -1 \/ levenshtein(dataSet[i], input) <= minDist
            THEN From(i + 1, levenshtein(dataSet[i], input), dataSet[i])
            ELSE From(i + 1, minDist, closest)
    IN From(1, -1, <<>>)

\* closestAlias; minDist -1 stands for math.MaxInt, above every distance.
closestAlias(input, dataSet) ==
    LET RECURSIVE From(_, _, _)
        From(i, minDist, closest) ==
            IF i > Len(dataSet) THEN closest
            ELSE IF minDist = -1 \/ levenshtein(dataSet[i], input) < minDist
            THEN From(i + 1, levenshtein(dataSet[i], input), dataSet[i])
            ELSE From(i + 1, minDist, closest)
    IN From(1, -1, <<>>)

\* ParseSort: [orderings, err, closest]; aliases is lo.Keys(columnMapping),
\* the keys in the order the map iteration gives them.  A missing key reads
\* as the empty column name.
ParseSort(stringsOrderings, columnMapping, aliases) ==
    LET Lookup(columnAlias) ==
            IF columnAlias \in DOMAIN columnMapping THEN columnMapping[columnAlias]
            ELSE <<>>
        RECURSIVE From(_, _)
        Parsed(i, parsed, cut) ==
            IF Len(cut) # 2
            THEN [orderings |-> <<>>, err |-> "invalid ordering string format",
                  closest |-> <<>>]
            ELSE IF Lookup(cut[1]) = <<>>
            THEN [orderings |-> <<>>, err |-> "invalid column alias",
                  closest |-> closestAlias(cut[1], aliases)]
            ELSE From(i + 1, Append(parsed, [Column |-> Lookup(cut[1]),
                                             Direction |-> ToUpper(cut[2])]))
        From(i, parsed) ==
            IF i > Len(stringsOrderings)
            THEN [orderings |-> parsed, err |-> NoErr, closest |-> <<>>]
            ELSE Parsed(i, parsed, SplitSpace(TrimSpace(stringsOrderings[i])))
    IN From(1, <<>>)

(***************************************************************************)
(* Calls of ParseSort and closestAlias on given arguments.                 *)
(***************************************************************************)
\* Largest number of raw strings given to ParseSort.
MaxStrings == 2

\* Largest number of aliases given to closestAlias.
MaxAliases == 3

\* The mapping of Test_ParseSort.
TestMapping ==
    (<<"i","d">> :> <<"t",".","i","d">>) @@ (<<"n","a","m","e">> :> <<"t",".","n","a","m","e">>)

InitParse ==
    /\ pager = NilPager("keyset")
    /\ getters = {}
    /\ dataset = {}
    /\ db = <<>>
    /\ resultSet = <<>>
    /\ ret = NoRet
    /\ pages = <<>>
    /\ pc = "parse"
    /\ calls = <<>>

\* ParseSort(rawStrings, mapping): well-formed strings in either letter
\* case, a missing and an extra token, an unknown alias, an unknown
\* direction, and white space other than one space between and around the
\* tokens; the keys of the mapping in either order.
CallParseSort ==
    /\ pc = "parse"
    /\ LET RawStrings ==
               {<<"i","d"," ","a","s","c">>,
                <<"n","a","m","e"," ","D","E","S","C">>,
                <<"i","d"," ","D","e","s","c">>,
                <<"i","d","x"," ","a","s","c">>,
                <<"i","d">>,
                <<"i","d"," ","s","i","d","e","w","a","y","s">>,
                <<"i","d"," "," ","a","s","c">>,
                <<" ","i","d"," ","a","s","c"," ">>,
                <<"i","d","\t","a","s","c">>,
                <<>>,
                <<"i","d"," ","a","s","c"," ","d","e","s","c">>,
                <<"n","a","m","e"," ","a","s","c">>}
       IN \E k \in 0..MaxStrings :
             \E stringsOrderings \in [1..k -> RawStrings],
                aliases \in {<<<<"i","d">>, <<"n","a","m","e">>>>, <<<<"n","a","m","e">>, <<"i","d">>>>} :
                LET Returned(r) ==
                        ret' = [op |-> "ParseSort", err |-> r.err, in |-> stringsOrderings,
                                orderings |-> r.orderings, closest |-> r.closest]
                IN Returned(ParseSort(stringsOrderings, TestMapping, aliases))
    /\ pc' = "returned"
    /\ UNCHANGED <<pager, getters, dataset, db, resultSet, pages, calls>>

\* closestAlias(input, aliases): every list of up to MaxAliases distinct
\* aliases, two of them at the same distance from some inputs.
CallClosestAlias ==
    /\ pc = "parse"
    /\ LET Aliases == {<<"i","d">>, <<"n","a","m","e">>, <<"c","r","e","a","t","e","d","_","a","t">>, <<"n","a","m","a">>}
           Inputs ==
               {<<"i","d","x">>,
                <<"n","m","e">>,
                <<"c","r","e","a","t","e","d","a","t">>,
                <<>>,
                <<"i","d">>,
                <<"n","a","m","x">>,
                <<"z","z","z","z","z","z">>,
                <<"c","r","e","a","t","e","d","_","a","t">>}
       IN \E k \in 0..MaxAliases :
             \E dataSet \in {s \in [1..k -> Aliases] :
                                \A i, j \in 1..k : i # j => s[i] # s[j]},
                input \in Inputs :
                ret' = [op |-> "closestAlias", err |-> NoErr, in |-> input,
                        dataSet |-> dataSet, closest |-> closestAlias(input, dataSet)]
    /\ pc' = "returned"
    /\ UNCHANGED <<pager, getters, dataset, db, resultSet, pages, calls>>

NextParse ==
    \/ CallParseSort
    \/ CallClosestAlias

SpecParse == InitParse /\ [][NextParse]_vars

(***************************************************************************)
(* C21.  ParseSort succeeds if and only if every raw string splits into    *)
(* exactly two whitespace-separated tokens, the first an alias present in  *)
(* the mapping and the second ASC or DESC in any letter case; on success   *)
(* result[i] is (mapping[alias_i], upper-cased direction_i) in input order *)
(* with a valid direction, and on any failure it returns an error and no   *)
(* orderings.                                                              *)
(***************************************************************************)
\* The tokens of a string: its maximal runs of characters that are not
\* white space.
Fields(s) ==
    LET RECURSIVE From(_, _, _)
        From(i, token, tokens) ==
            IF i > Len(s) THEN IF token = <<>> THEN tokens ELSE Append(tokens, token)
            ELSE IF s[i] \in {" ", "\t", "\n", "\r"}
            THEN From(i + 1, <<>>, IF token = <<>> THEN tokens ELSE Append(tokens, token))
            ELSE From(i + 1, Append(token, s[i]), tokens)
    IN From(1, <<>>, <<>>)

\* The raw string is as the claim requires, for the given mapping.
WellFormed(raw, mapping) ==
    /\ Len(Fields(raw)) = 2
    /\ Fields(raw)[1] \in DOMAIN mapping
    /\ ToUpper(Fields(raw)[2]) \in {<<"A","S","C">>, <<"D","E","S","C">>}

C21_ParseSort ==
    ret.op = "ParseSort" =>
        /\ ret.err = NoErr <=> \A i \in 1..Len(ret.in) : WellFormed(ret.in[i], TestMapping)
        /\ ret.err = NoErr =>
              /\ Len(ret.orderings) = Len(ret.in)
              /\ \A i \in 1..Len(ret.in) :
                    /\ ret.orderings[i].Direction \in {<<"A","S","C">>, <<"D","E","S","C">>}
                    /\ ret.orderings[i].Column = TestMapping[Fields(ret.in[i])[1]]
                    /\ ret.orderings[i].Direction = ToUpper(Fields(ret.in[i])[2])
        /\ ret.err # NoErr => ret.orderings = <<>>

(***************************************************************************)
(* C22.  closestAlias(input, aliases) returns an alias of the list whose   *)
(* Levenshtein distance to the input is minimal among the listed aliases,  *)
(* the first such alias of the list on ties; for the aliases id, name,     *)
(* created_at it returns id for idx and name for nme.                      *)
(***************************************************************************)
C22_ClosestAlias ==
    (ret.op = "closestAlias" /\ ret.dataSet # <<>>) =>
        /\ \E i \in 1..Len(ret.dataSet) :
              /\ ret.closest = ret.dataSet[i]
              /\ \A j \in 1..Len(ret.dataSet) :
                    levenshtein(ret.dataSet[i], ret.in) <= levenshtein(ret.dataSet[j], ret.in)
              /\ \A j \in 1..(i - 1) :
                    levenshtein(ret.dataSet[i], ret.in) < levenshtein(ret.dataSet[j], ret.in)
        /\ ret.dataSet = << <<"i","d">>, <<"n","a","m","e">>,
                            <<"c","r","e","a","t","e","d","_","a","t">> >> =>
              /\ ret.in = <<"i","d","x">> => ret.closest = <<"i","d">>
              /\ ret.in = <<"n","m","e">> => ret.closest = <<"n","a","m","e">>

\* C22 witness: two listed aliases are at the same, minimal distance from
\* the input and the one listed first is returned.
C22_Witness ==
    /\ ret.op = "closestAlias"
    /\ ret.in = <<"n","a","m","x">>
    /\ ret.dataSet = << <<"i","d">>, <<"n","a","m","a">>, <<"n","a","m","e">> >>
    /\ ret.closest = <<"n","a","m","a">>

(***************************************************************************)
(* C23.  TrimResultSet returns a result for every pager and every result   *)
(* set: with lookahead enabled and an empty result set it returns the      *)
(* empty set instead of failing.                                           *)
(***************************************************************************)
C23_TrimTotal ==
    (ret.op = "TrimResultSet" /\ ~pager.nil) =>
        /\ ret.err = NoErr
        /\ (pager.lookahead /\ resultSet = <<>>) => ret.rows = <<>>

(***************************************************************************)
(* Repeated calls on one pager: the caller keeps a pager, a query builder, *)
(* a result set and getters and calls the pager's operations on them, any  *)
(* of them, again and again; calls logs the pager before and after each    *)
(* call, what the call returned and the calls it made on the builder.      *)
(***************************************************************************)
\* Largest number of calls in a sequence.
MaxRepeats == 2

\* Mutant: the orderings are applied before the pager is validated.
PaginateInvocationsSortingFirst(p, q) ==
    IF PagerValidate(Receiver(p)) # NoErr
    THEN <<DbOrder(OrderingsToSQL(Receiver(p).sort))>>
    ELSE SubSeq(PaginateCalls(Receiver(p), q), Len(q) + 1,
                Len(PaginateCalls(Receiver(p), q)))

\* The calls Paginate makes on the caller's query builder, in order: none
\* when validation fails, since it returns before the first of them.
PaginateInvocations(p, q) ==
    IF PagerValidate(Receiver(p)) # NoErr THEN <<>>
    ELSE SubSeq(PaginateCalls(Receiver(p), q), Len(q) + 1,
                Len(PaginateCalls(Receiver(p), q)))

\* Any pager with at most one ordering; the caller's builder is fresh or
\* already carries a filter of its own.
InitRepeat ==
    /\ pager \in {p \in PagerInputs : Len(p.sort) <= 1}
    /\ getters \in GetterInputs
    /\ dataset = {}
    /\ db \in {<<>>, <<DbClauses(<<<<[Column |-> ColB, Value |-> IntValue(1),
                                     Operator |-> operatorEq]>>>>)>>}
    /\ resultSet \in ResultInputs
    /\ ret = NoRet
    /\ pages = <<>>
    /\ pc = "repeat"
    /\ calls = <<>>

\* pager.Paginate(db); none of its statements assigns to the pager.
RepeatPaginate ==
    /\ pc = "repeat" /\ Len(calls) < MaxRepeats
    /\ ret' = Paginate(pager, db)
    /\ pager' = pager
    /\ calls' = Append(calls, [op |-> "Paginate", before |-> pager, after |-> pager',
                               ret |-> ret',
                               invoked |-> PaginateInvocations(pager, db)])
    /\ UNCHANGED <<getters, dataset, db, resultSet, pages, pc>>

\* IsLastPage(pager, resultSet)
RepeatIsLastPage ==
    /\ pc = "repeat" /\ Len(calls) < MaxRepeats /\ ~pager.nil
    /\ ret' = [op |-> "IsLastPage", err |-> NoErr, last |-> IsLastPage(pager, resultSet)]
    /\ pager' = pager
    /\ calls' = Append(calls, [op |-> "IsLastPage", before |-> pager, after |-> pager',
                               ret |-> ret', invoked |-> <<>>])
    /\ UNCHANGED <<getters, dataset, db, resultSet, pages, pc>>

\* TrimResultSet(pager, resultSet): the slice it returns shares the rows of
\* the caller's result set, which keeps its length.
RepeatTrimResultSet ==
    /\ pc = "repeat" /\ Len(calls) < MaxRepeats /\ ~pager.nil
    /\ ret' = IF TrimPanics(pager, resultSet) THEN [op |-> "TrimResultSet", err |-> Panic]
              ELSE [op |-> "TrimResultSet", err |-> NoErr,
                    rows |-> TrimResultSet(pager, resultSet)]
    /\ pager' = pager
    /\ calls' = Append(calls, [op |-> "TrimResultSet", before |-> pager, after |-> pager',
                               ret |-> ret', invoked |-> <<>>])
    /\ UNCHANGED <<getters, dataset, db, resultSet, pages, pc>>

\* NextPageCursor(pager, resultSet, getters): the cursor is a new object.
RepeatNextPageCursor ==
    /\ pc = "repeat" /\ Len(calls) < MaxRepeats /\ pager.kind = "keyset"
    /\ ret' = NextPageCursor(pager, resultSet, getters)
    /\ pager' = pager
    /\ calls' = Append(calls, [op |-> "NextPageCursor", before |-> pager, after |-> pager',
                               ret |-> ret', invoked |-> <<>>])
    /\ UNCHANGED <<getters, dataset, db, resultSet, pages, pc>>

\* Mutant: the derived cursor is also stored in the pager.
RepeatNextPagePseudoCursorAdvancing ==
    /\ pc = "repeat" /\ Len(calls) < MaxRepeats /\ pager.kind = "offset"
    /\ ret' = NextPagePseudoCursor(pager, resultSet)
    /\ pager' = IF ret'.cursor.nil THEN pager ELSE WithCursor(pager, ret'.cursor)
    /\ calls' = Append(calls, [op |-> "NextPagePseudoCursor", before |-> pager,
                               after |-> pager', ret |-> ret', invoked |-> <<>>])
    /\ UNCHANGED <<getters, dataset, db, resultSet, pages, pc>>

\* NextPagePseudoCursor(pager, resultSet): the cursor is a new object.
RepeatNextPagePseudoCursor ==
    /\ pc = "repeat" /\ Len(calls) < MaxRepeats /\ pager.kind = "offset"
    /\ ret' = NextPagePseudoCursor(pager, resultSet)
    /\ pager' = pager
    /\ calls' = Append(calls, [op |-> "NextPagePseudoCursor", before |-> pager,
                               after |-> pager', ret |-> ret', invoked |-> <<>>])
    /\ UNCHANGED <<getters, dataset, db, resultSet, pages, pc>>

NextRepeat ==
    \/ RepeatPaginate
    \/ RepeatIsLastPage
    \/ RepeatTrimResultSet
    \/ RepeatNextPageCursor
    \/ RepeatNextPagePseudoCursor

SpecRepeat == InitRepeat /\ [][NextRepeat]_vars

(***************************************************************************)
(* C24.  When Paginate fails validation it returns the error and no query  *)
(* builder, and it has made no call (sort, filter, skip or limit) on the   *)
(* caller's query builder.                                                 *)
(***************************************************************************)
C24_NoPartialApplication ==
    \A i \in 1..Len(calls) :
        (calls[i].op = "Paginate" /\ calls[i].ret.err # NoErr) =>
            /\ calls[i].ret.dbNil
            /\ calls[i].invoked = <<>>

\* C24 witness: Paginate failed on the cursor of a pager whose orderings
\* are valid, on a builder that already carried a filter.
C24_Witness ==
    /\ calls # <<>> /\ calls[1].op = "Paginate"
    /\ calls[1].ret.err = ErrUnexpectedColumn
    /\ OrderingsValidate(pager.sort) = NoErr
    /\ db # <<>>

C25_WitnessFailure ==
    /\ Len(calls) = 2
    /\ calls[1].op = "Paginate" /\ calls[2].op = "Paginate"
    /\ calls[2].ret.err # NoErr /\ calls[2].after = calls[1].before

(***************************************************************************)
(* A session that follows tokens: as the pagination session above, but the *)
(* limit may also be unset (0) or unlimited, the sort keys of the rows are  *)
(* pairwise distinct, and the client gets the cursor as its token (String) *)
(* and sends the token back (Decode).  calls logs, for every page but the   *)
(* current one, the page, the number of rows the query returned and the    *)
(* cursor.                                                                 *)
(***************************************************************************)
\* Largest number of tokens followed: one more than a session over
\* MaxRows rows at limit 1 needs.
MaxFollowed == MaxRows + 1

\* Largest number of tokens followed when the limit is 0 or unlimited,
\* where a session need not end.
MaxEndless == 2

InitFollow ==
    /\ \E kind \in {"keyset", "offset"}, sort \in ValidSorts,
          limit \in {NoLimit} \cup 0..MaxPage, lookahead \in BOOLEAN :
          pager = RequestPager(kind, sort, limit, lookahead)
    /\ getters = RowCols
    /\ dataset \in {d \in Datasets :
                      \A r1, r2 \in d :
                          r1 # r2 => \/ RowBefore(r1, r2, OrderingsToSQL(pager.sort), 1)
                                     \/ RowBefore(r2, r1, OrderingsToSQL(pager.sort), 1)}
    /\ db = <<>>
    /\ resultSet = <<>>
    /\ ret = NoRet
    /\ pages = <<>>
    /\ pc = "paginate"
    /\ calls = <<>>

\* The client asks for the next page with the token of the returned cursor.
FollowToken ==
    /\ pc = "respond" /\ Len(calls) < MaxFollowed
    /\ pager.limit < 1 => Len(calls) < MaxEndless
    /\ LET token == IF pager.kind = "keyset" THEN DefaultCursorString(ret.cursor)
                    ELSE PseudoCursorString(ret.cursor)
           Decoded(d) ==
               /\ pager' = IF d.err = NoErr THEN WithCursor(pager, d.cursor) ELSE pager
               /\ pc' = IF d.err = NoErr THEN "paginate" ELSE "failed"
       IN /\ calls' = Append(calls, [op |-> ret.op, rows |-> ret.rows,
                                     fetched |-> Len(resultSet), cursor |-> ret.cursor])
          /\ IF pager.kind = "keyset" THEN Decoded(DecodeCursor(token))
             ELSE Decoded(DecodePseudoCursor(token))
    /\ db' = <<>>
    /\ resultSet' = <<>>
    /\ UNCHANGED <<getters, dataset, ret, pages>>

NextFollow ==
    \/ DoPaginate
    \/ Execute
    \/ DoNextPageCursor
    \/ DoNextPagePseudoCursor
    \/ FollowToken

SpecFollow == InitFollow /\ [][NextFollow]_vars

(***************************************************************************)
(* C26.  Over a finite static dataset of N rows with pairwise distinct     *)
(* sort-key tuples and a limit >= 1, following the token returned by       *)
(* NextPageCursor or NextPagePseudoCursor reaches a page for which no      *)
(* token is returned: with lookahead after exactly ceil(N/limit) pages     *)
(* (one page for N = 0), without lookahead after at most one additional,   *)
(* empty page.  While a token is returned the session is short of that     *)
(* number of pages, so it cannot go on for ever.                           *)
(***************************************************************************)
\* ceil(N/limit), one for the empty dataset.
ClaimedPages ==
    IF dataset = {} THEN 1
    ELSE (Cardinality(dataset) + pager.limit - 1) \div pager.limit

\* The pages returned so far, the current one included.
PagesReturned == Len(calls) + 1

C26_SessionEnds ==
    (pager.limit >= 1 /\ DistinctSortKeys) =>
        /\ pc # "failed"
        /\ pc = "respond" =>
              PagesReturned < ClaimedPages + (IF pager.lookahead THEN 0 ELSE 1)
        /\ (pc = "done" /\ pager.lookahead) => PagesReturned = ClaimedPages
        /\ (pc = "done" /\ ~pager.lookahead) =>
              \/ PagesReturned = ClaimedPages
              \/ PagesReturned = ClaimedPages + 1 /\ ret.rows = <<>>

\* C26 witness: a keyset session with lookahead over three rows at limit 1
\* ended with its third page.
C26_Witness ==
    /\ pc = "done" /\ pager.kind = "keyset" /\ pager.lookahead /\ pager.limit = 1
    /\ DistinctSortKeys /\ Cardinality(dataset) = 3
    /\ Len(calls) = 2 /\ Len(pages) = 3

\* C26 witness without lookahead: an offset session over two rows at limit
\* 2 ended with a second, empty page.
C26_WitnessEmptyPage ==
    /\ pc = "done" /\ pager.kind = "offset" /\ ~pager.lookahead /\ pager.limit = 2
    /\ DistinctSortKeys /\ Cardinality(dataset) = 2
    /\ Len(calls) = 1 /\ ret.rows = <<>>

(***************************************************************************)
(* C27.  Whenever next-token derivation returns a token, the page it       *)
(* returns is non-empty, for every pager that passes validation (a limit   *)
(* never set, i.e. 0, and unlimited mode included): an offset token is     *)
(* strictly greater than the previous offset and a keyset token is built   *)
(* from a row of the result, never from a zero-valued row.                 *)
(***************************************************************************)
C27_TokenHasPage ==
    (/\ pc = "respond"
     /\ ret.op \in {"NextPageCursor", "NextPagePseudoCursor"}
     /\ ret.err = NoErr /\ ~ret.cursor.nil) =>
        /\ ret.rows # <<>>
        /\ pager.kind = "offset" => GetOffset(ret.cursor) > GetOffset(pager.cursor)
        /\ pager.kind = "keyset" =>
              \E i \in 1..Len(resultSet) :
                 ret.cursor.elements =
                    [j \in 1..Len(pager.sort) |-> nextElement(pager.sort[j], resultSet[i])]

(***************************************************************************)
(* C28.  Whenever NextPageCursor returns a cursor for a pager, that cursor *)
(* passes DefaultCursor.validate against the pager's orderings (same       *)
(* length, same columns in the same order, operators matching the          *)
(* directions), so the pager for the following page, built with the same   *)
(* orderings and the new cursor, passes validation.                        *)
(***************************************************************************)
C28_NextCursorIsValid ==
    (/\ pc = "returned" /\ ret.op = "NextPageCursor"
     /\ ret.err = NoErr /\ ~ret.cursor.nil) =>
        /\ DefaultCursorValidate(ret.cursor, pager.sort) = NoErr
        /\ Len(ret.cursor.elements) = Len(pager.sort)
        /\ \A i \in 1..Len(pager.sort) :
              /\ ret.cursor.elements[i].Column = pager.sort[i].Column
              /\ OperatorMatches(ret.cursor.elements[i].Operator, pager.sort[i].Direction)
        /\ PagerValidate(WithCursor(pager, ret.cursor)) = NoErr

\* C28 witness: a cursor was derived for two orderings, one descending,
\* from a pager that itself carried a cursor.
C28_Witness ==
    /\ pc = "returned" /\ ret.op = "NextPageCursor" /\ ret.err = NoErr
    /\ ~ret.cursor.nil /\ ~pager.cursor.nil
    /\ Len(pager.sort) = 2 /\ pager.sort[2].Direction = DirectionDESC
    /\ Len(ret.cursor.elements) = 2

(***************************************************************************)
(* C29.  Whenever Paginate succeeds, every column name it renders into the *)
(* sort spec and into the keyset filter consists only of allowed           *)
(* column-name characters and every operator rendered is >, < or =: a      *)
(* column or operator of the cursor reaches the query only if it equals a  *)
(* validated ordering column and is a valid operator, and the cursor's     *)
(* values are passed as bound parameters only.                             *)
(***************************************************************************)
\* The name consists of allowed column-name characters only.
AllowedName(column) ==
    \A i \in 1..Len(column) : column[i] \in availableColumnNameSymbols

C29_OnlyValidatedText ==
    (pc = "returned" /\ ret.op = "Paginate" /\ ret.err = NoErr) =>
        \A k \in 1..Len(db) :
            /\ db[k].op = "Order" =>
                  \A i \in 1..Len(db[k].sort) :
                      /\ AllowedName(db[k].sort[i][1])
                      /\ db[k].sort[i][2] \in {"ASC", "DESC"}
            /\ db[k].op = "Clauses" =>
                  \A i \in 1..Len(db[k].expr) : \A j \in 1..Len(db[k].expr[i]) :
                      /\ AllowedName(db[k].expr[i][j].Column)
                      /\ \E o \in 1..Len(pager.sort) :
                            pager.sort[o].Column = db[k].expr[i][j].Column
                      /\ db[k].expr[i][j].Operator \in {">", "<", "="}
                      /\ \E e \in 1..Len(pager.cursor.elements) :
                            /\ db[k].expr[i][j].Var = parseAnyValue(pager.cursor.elements[e].Value)
                            /\ conjunctToSQLClause(pager.cursor.elements[e]).sql[3] = "?"

\* C29 witness: Paginate rendered the keyset filter of a cursor of two
\* elements.
C29_Witness ==
    /\ pc = "returned" /\ ret.op = "Paginate" /\ ret.err = NoErr
    /\ Len(pager.cursor.elements) = 2
    /\ \E k \in 1..Len(db) : db[k].op = "Clauses" /\ Len(db[k].expr) = 2

====
